---------------------------- MODULE Spec2Model ----------------------------
(***************************************************************************)
(* A model of the DRPS catalogue crawler, src/scraper.py (class            *)
(* DRPSScraper): the page fetcher with its previous-edition fallback, the  *)
(* structural parsers, the crawl orchestrator scrape_all and the JSON      *)
(* sink.                                                                   *)
(*                                                                         *)
(* Text is modelled as a sequence of tokens (a token is a character or a   *)
(* word), so that substring tests, regular-expression matches and case     *)
(* conversions are computed and not assumed.  A URL is a record            *)
(* [ed, file]: the edition base path it starts with and the file name      *)
(* under <base>/dpt/.                                                      *)
(***************************************************************************)
EXTENDS Integers, Sequences, FiniteSets, TLC

VARIABLES
    try_previous_year,  \* DRPSScraper.try_previous_year
    debug,              \* DRPSScraper.debug
    BASE_URL_CURRENT,   \* the attribute fetch_page reads and rewrites
    outage,             \* environment: the editions whose every request fails
    down,               \* environment: the single URLs whose request fails
    unwritable,         \* environment: the file paths whose open(.., 'w') fails
    site,               \* environment: URL -> document, for the documents that differ
                        \* from the reference site (CrawlDocOf)
    requests,           \* history: every session.get issued, in order
    files,              \* the output directory: path -> content written
    calls,              \* history: the top-level calls made so far, with their outcome
    pc,                 \* position of the running driver
    colleges_data,      \* scrape_all local
    all_colleges,       \* scrape_all local
    all_schools,        \* scrape_all local
    ci,                 \* scrape_all: index of the college being processed
    si,                 \* scrape_all: index of the school being processed
    subjects,           \* scrape_all local
    ji,                 \* scrape_all: index of the subject being processed
    all_courses,        \* scrape_all local
    raised              \* the exception propagating out of the driver, or "none"

scraperVars == <<try_previous_year, debug, BASE_URL_CURRENT>>
envVars     == <<outage, down, unwritable, site>>
crawlVars   == <<colleges_data, all_colleges, all_schools, ci, si, subjects, ji, all_courses>>
vars        == <<scraperVars, envVars, requests, files, calls, pc, crawlVars, raised>>

-----------------------------------------------------------------------------
(* Bounds of the model *)

\* how many documents may be down, malformed or unwritable in one run (besides an edition-wide outage)
MaxFaults == 1
\* how many fetch_page calls the fetcher driver makes
MaxCalls == 2
\* how many rows a generated course table has
MaxRows == 2
\* how many blocks a generated index document has
MaxBlocks == 3
MaxCourses == 3

-----------------------------------------------------------------------------
(* Generic helpers *)

Range(s) == {s[i] : i \in 1..Len(s)}

Min(a, b) == IF a < b THEN a ELSE b

Max(a, b) == IF a > b THEN a ELSE b

\* Python: needle in hay, on token sequences (a contiguous run of tokens)
Contains(hay, needle) ==
    \E i \in 0..(Len(hay) - Len(needle)) :
        \A j \in 1..Len(needle) : hay[i + j] = needle[j]

\* Python: dict.update, a.update(b): b's entries win
DictUpdate(a, b) ==
    [k \in (DOMAIN a) \cup (DOMAIN b) |-> IF k \in DOMAIN b THEN b[k] ELSE a[k]]

EmptyDict == [k \in {} |-> <<>>]

-----------------------------------------------------------------------------
(* URLs and the two catalogue editions *)

BASE_URL_CURRENT_0 == "24-25"   \* class attribute BASE_URL_CURRENT
BASE_URL_PREVIOUS  == "23-24"   \* class attribute BASE_URL_PREVIOUS
Editions == {BASE_URL_CURRENT_0, BASE_URL_PREVIOUS}
Hosts    == Editions \cup {"ext"}      \* "ext": a URL under neither base path

Url(ed, file) == [ed |-> ed, file |-> file]

IndexFile == <<"cx_sch", "index", ".htm">>

SCHOOLS_INDEX_URL_CURRENT  == Url(BASE_URL_CURRENT_0, IndexFile)
SCHOOLS_INDEX_URL_PREVIOUS == Url(BASE_URL_PREVIOUS, IndexFile)

\* self.BASE_URL_CURRENT in url
BaseInUrl(base, url) == url.ed = base

\* url.replace(self.BASE_URL_CURRENT, self.BASE_URL_PREVIOUS)
PreviousYearUrl(base, url) == IF url.ed = base THEN [url EXCEPT !.ed = BASE_URL_PREVIOUS] ELSE url

\* the debug capture file of a URL
DebugFile(url) == <<"debug", <<url.ed>> \o url.file>>

NoDoc == [ed |-> "none", file |-> <<>>]

-----------------------------------------------------------------------------
(* Text: token sequences.  str(t) functions used by the parsers. *)

\* len() of one token, in characters
TokLen(t) ==
    CASE t = "College of" -> 10
      [] t = " Arts, Humanities and Social Sciences" -> 37
      [] t = " Science and Engineering" -> 24
      [] t = " Medicine and Veterinary Medicine" -> 33
      [] t = "(Schedule " -> 10
      [] t = ")" -> 1
      [] t = "Schedule" -> 8
      [] t = "Schools A-Z" -> 11
      [] t = "Long introduction" -> 200
      [] OTHER -> 12

RECURSIVE TextLen(_)
TextLen(text) == IF text = <<>> THEN 0 ELSE TokLen(Head(text)) + TextLen(Tail(text))

RECURSIVE Flatten(_)
\* ''.join(texts)
Flatten(texts) == IF texts = <<>> THEN <<>> ELSE Head(texts) \o Flatten(Tail(texts))

\* text.strip(): without the blank tokens at its two ends
RECURSIVE Strip(_)
Strip(text) ==
    IF text # <<>> /\ Head(text) = " " THEN Strip(Tail(text))
    ELSE IF text # <<>> /\ text[Len(text)] = " " THEN Strip(SubSeq(text, 1, Len(text) - 1))
    ELSE text

\* text.split("(Schedule ")[0] : the tokens before the first "(Schedule "
RECURSIVE BeforeSchedule(_)
BeforeSchedule(text) ==
    IF text = <<>> \/ Head(text) = "(Schedule " THEN <<>>
    ELSE <<Head(text)>> \o BeforeSchedule(Tail(text))

\* name_parts[1].strip(")") : the part between the first and the second "(Schedule ",
\* without the ")" tokens at its two ends
RECURSIVE StripParen(_)
StripParen(text) ==
    IF text # <<>> /\ Head(text) = ")" THEN StripParen(Tail(text))
    ELSE IF text # <<>> /\ text[Len(text)] = ")" THEN StripParen(SubSeq(text, 1, Len(text) - 1))
    ELSE text

RECURSIVE AfterSchedule(_)
AfterSchedule(text) ==
    IF text = <<>> THEN <<>>
    ELSE IF Head(text) = "(Schedule " THEN BeforeSchedule(Tail(text))
    ELSE AfterSchedule(Tail(text))

\* the pair (school_name, schedule_code) of a school link text (lines 281-287, 226-232)
SchoolNameOf(text) ==
    IF Contains(text, <<"(Schedule ">>) THEN Strip(BeforeSchedule(text)) ELSE text

ScheduleOf(text) ==
    IF Contains(text, <<"(Schedule ">>) THEN <<"Schedule ">> \o StripParen(AfterSchedule(text))
    ELSE <<>>

-----------------------------------------------------------------------------
(* hrefs.  NoHref: the attribute is missing or empty.  Otherwise a record   *)
(* [form, ed, file]: "rel" a relative file name, "abs" a URL starting with  *)
(* http (ed its base path), "anchor" a reference starting with '#'.        *)
(* A file name is a token sequence, e.g. <<"cx_s_", "su1", ".htm">>.        *)

NoHref == [form |-> "none", ed |-> "none", file |-> <<>>]

Rel(file) == [form |-> "rel", ed |-> "none", file |-> file]

Abs(ed, file) == [form |-> "abs", ed |-> ed, file |-> file]

Anchor == [form |-> "anchor", ed |-> "none", file |-> <<"#top">>]

NoLink == [href |-> NoHref, text |-> <<>>, has |-> FALSE]

Link(href, text) == [href |-> href, text |-> text, has |-> TRUE]

\* href.split("cx_s_")[-1].replace(".htm", "") : the tokens after the last "cx_s_"
AfterLast(file, tok) ==
    IF \E i \in 1..Len(file) : file[i] = tok
    THEN LET i == CHOOSE k \in 1..Len(file) :
                      file[k] = tok /\ \A m \in (k + 1)..Len(file) : file[m] # tok
         IN SubSeq(file, i + 1, Len(file))
    ELSE file

Without(file, tok) == SelectSeq(file, LAMBDA t : t # tok)

SchoolCodeOf(href) ==
    IF Contains(href.file, <<"cx_s_">>) THEN Without(AfterLast(href.file, "cx_s_"), ".htm")
    ELSE <<>>

\* f"{self.BASE_URL_CURRENT}/dpt/{href}", or href itself when it starts with http
SchoolUrl(href, base) ==
    IF href.form = "abs" THEN Url(href.ed, href.file) ELSE Url(base, href.file)

\* "/".join(page_url.split("/")[:-1]) + "/" + href, or href itself when it starts with http
SiblingUrl(href, page_url) ==
    IF href.form = "abs" THEN Url(href.ed, href.file) ELSE Url(page_url.ed, href.file)

-----------------------------------------------------------------------------
(* Constructors of document parts *)

ArtsName == <<"College of", " Arts, Humanities and Social Sciences">>
SciName  == <<"College of", " Science and Engineering">>
MedName  == <<"College of", " Medicine and Veterinary Medicine">>

college_names == <<ArtsName, SciName, MedName>>

CollegeSet == Range(college_names)

H(text)   == [k |-> "h", text |-> text, items |-> <<>>]
Ul(items) == [k |-> "ul", text |-> <<>>, items |-> items]
A(link)   == [k |-> "a", text |-> <<>>, items |-> <<link>>]

Td(text) == [tag |-> "td", text |-> text, href |-> NoHref, has |-> FALSE]
Th(text) == [tag |-> "th", text |-> text, href |-> NoHref, has |-> FALSE]
\* a td cell holding one link
TdLink(text, href) == [tag |-> "td", text |-> text, href |-> href, has |-> TRUE]

W2(a, b) == <<a, " ", b>>


-----------------------------------------------------------------------------
(* Documents *)

NoHeading == [has |-> FALSE, text |-> <<>>]

EmptyDoc ==
    [bad |-> FALSE, blocks |-> <<>>, items |-> <<>>, hasContent |-> FALSE, content |-> <<>>,
     tables |-> <<>>, links |-> <<>>, h |-> NoHeading]

IndexDoc(blocks) == [EmptyDoc EXCEPT !.blocks = blocks]

SchoolDoc(items, hasContent, content) ==
    [EmptyDoc EXCEPT !.items = items, !.hasContent = hasContent, !.content = content]

SubjectDoc(tables, links) == [EmptyDoc EXCEPT !.tables = tables, !.links = links]

DetailDoc(h, tables) == [EmptyDoc EXCEPT !.h = h, !.tables = tables]

Table(cls, caption, rows) == [cls |-> cls, caption |-> caption, rows |-> rows]

-----------------------------------------------------------------------------
(* The reference site the crawl runs on: two schools, four subjects, five   *)
(* courses (three with a detail page), served alike by both editions.       *)

F(a, b) == <<a, b, ".htm">>

Code1 == <<"A", "B", "1", "2", "3", "4">>
Code2 == <<"A", "B", "1", "2", "3", "5">>
Code3 == <<"C", "D", "1", "2", "3", "4">>
Code4 == <<"C", "D", "1", "2", "3", "5">>
Code5 == <<"B", "A", "1", "2", "3", "4", "5">>

CourseHeader == <<Th(<<"Code">>), Th(<<"Course", " ", "Name">>), Th(<<"Period">>)>>

CourseRow(code, name, href) == <<Td(code), TdLink(name, href), Td(<<"Semester 1">>)>>

\* a row whose name cell holds no link
PlainRow(code, name) == <<Td(code), Td(name), Td(<<"Semester 2">>)>>

CrawlDocOf(file) ==
    CASE file = IndexFile ->
            IndexDoc(<< H(ArtsName),
                        Ul(<<Link(Rel(F("cx_s_", "su1")),
                                  <<"School of ", "Divinity", " ", "(Schedule ", "A", ")">>)>>),
                        H(SciName),
                        Ul(<<Link(Rel(F("cx_s_", "su2")), <<"School of ", "Informatics">>)>>),
                        H(MedName) >>)
      [] file = F("cx_s_", "su1") ->
            SchoolDoc(<< Link(Rel(IndexFile), <<"Schools A-Z">>),
                         Link(Rel(F("cx_sb_", "s1")), <<"Divinity">>),
                         Link(Rel(F("cx_sb_", "s2")), <<"Theology">>),
                         Link(Rel(F("cx_sb_", "s3")), <<"Religious Studies">>) >>, FALSE, <<>>)
      [] file = F("cx_s_", "su2") ->
            SchoolDoc(<<>>, TRUE, <<Link(Rel(F("cx_sb_", "s4")), <<"Informatics">>)>>)
      [] file = F("cx_sb_", "s1") ->
            SubjectDoc(<<Table(TRUE, <<>>,
                           << CourseHeader,
                              CourseRow(Code1, <<"Intro">>, Rel(F("cx", "c1"))),
                              CourseRow(Code2, <<"Ethics">>, Rel(F("cx", "c2"))) >>)>>, <<>>)
      [] file = F("cx_sb_", "s2") ->
            SubjectDoc(<<Table(TRUE, <<>>,
                           << CourseHeader,
                              PlainRow(Code3, <<"Theology 1">>) >>)>>, <<>>)
      [] file = F("cx_sb_", "s3") ->
            SubjectDoc(<<>>, <<Link(Rel(F("cx", "c4")), <<"Religion ">> \o Code4)>>)
      [] file = F("cx_sb_", "s4") ->
            SubjectDoc(<<Table(FALSE, <<>>,
                           << CourseHeader,
                              PlainRow(Code5, <<"Logic">>) >>)>>, <<>>)
      [] file = F("cx", "c1") ->
            DetailDoc([has |-> TRUE, text |-> <<"Intro">>],
                      <<Table(FALSE, W2("Entry", "Requirements"),
                              <<<<Th(W2("Prohibited", "Combinations")), Td(Code2)>>>>)>>)
      [] file = F("cx", "c2") ->
            DetailDoc(NoHeading,
                      <<Table(FALSE, <<>>, <<<<Th(<<"Notes">>), Td(<<"None">>)>>>>)>>)
      [] OTHER -> DetailDoc(NoHeading, <<>>)

CrawlFiles ==
    {IndexFile, F("cx_s_", "su1"), F("cx_s_", "su2"),
     F("cx_sb_", "s1"), F("cx_sb_", "s2"), F("cx_sb_", "s3"), F("cx_sb_", "s4"),
     F("cx", "c1"), F("cx", "c2"), F("cx", "c4")}

CrawlUrls == {Url(e, f) : e \in Editions, f \in CrawlFiles}

\* the debug captures a fault scenario may make unwritable
CrawlCaptures ==
    {DebugFile(u) : u \in {SCHOOLS_INDEX_URL_CURRENT, SCHOOLS_INDEX_URL_PREVIOUS,
                            Url(BASE_URL_CURRENT_0, F("cx_s_", "su2")),
                            Url(BASE_URL_CURRENT_0, F("cx_sb_", "s2")),
                            Url(BASE_URL_CURRENT_0, F("cx", "c1")),
                            Url(BASE_URL_PREVIOUS, F("cx", "c1"))}}

\* the document served at a URL
RejectedDoc == [EmptyDoc EXCEPT !.bad = TRUE]

DocAt(url) == IF url \in DOMAIN site THEN site[url] ELSE CrawlDocOf(url.file)

-----------------------------------------------------------------------------
(* fetch_page *)

\* the retry guard of fetch_page
RetryGuard(base, url) == try_previous_year /\ BaseInUrl(base, url)

\* the debug capture after a successful response: TRUE when it raises OSError
DebugWriteFails(url) == debug /\ DebugFile(url) \in unwritable

\* the base after a successful previous-edition retry
SwitchedBase(base) == BASE_URL_PREVIOUS

\* session.get(url) followed by raise_for_status(): TRUE when it succeeds
Up(url) == url.ed \notin outage /\ url \notin down

\* BeautifulSoup(response.text, 'html.parser') on a document the parser rejects
SoupFails(url) == DocAt(url).bad

\* One call fetch_page(url) with the attribute BASE_URL_CURRENT = base.
\* out: "ok", or the exception raised: "RequestException" (the request failed),
\* "OSError" (the debug capture could not be written), "ParseError" (the
\* parser rejected the response); doc: the URL whose document is returned;
\* reqs: the requests issued; saved: the debug files written.
\* a variant in which every call leaves the base at the previous edition
FetchResultSwitching(out, doc, base, reqs, saved) ==
    [out |-> out, doc |-> doc, base |-> BASE_URL_PREVIOUS, reqs |-> reqs, saved |-> saved]

FetchResult(out, doc, base, reqs, saved) ==
    [out |-> out, doc |-> doc, base |-> base, reqs |-> reqs, saved |-> saved]

\* a variant in which the failed retry has already switched the base
OnRetryFailureSwitching(base, reqs) ==
    FetchResult("RequestException", NoDoc, BASE_URL_PREVIOUS, reqs, {})

\* lines 95-98: the retry failed too; the first error is re-raised
OnRetryFailure(base, reqs) == FetchResult("RequestException", NoDoc, base, reqs, {})

fetch_page(url, base) ==
    IF Up(url)
    THEN IF DebugWriteFails(url)
         THEN FetchResult("OSError", NoDoc, base, <<url>>, {})
         ELSE LET saved == IF debug THEN {DebugFile(url)} ELSE {} IN
              IF SoupFails(url)
              THEN FetchResult("ParseError", NoDoc, base, <<url>>, saved)
              ELSE FetchResult("ok", url, base, <<url>>, saved)
    ELSE IF RetryGuard(base, url)
         THEN LET previous_year_url == PreviousYearUrl(base, url)
                  reqs == <<url, previous_year_url>>
              IN
              IF Up(previous_year_url)
              THEN IF DebugWriteFails(previous_year_url)
                   THEN FetchResult("OSError", NoDoc, base, reqs, {})
                   ELSE LET saved == IF debug THEN {DebugFile(previous_year_url)} ELSE {} IN
                        IF SoupFails(previous_year_url)
                        THEN FetchResult("ParseError", NoDoc, SwitchedBase(base), reqs, saved)
                        ELSE FetchResult("ok", previous_year_url, SwitchedBase(base), reqs, saved)
              ELSE OnRetryFailure(base, reqs)
         ELSE FetchResult("RequestException", NoDoc, base, <<url>>, {})

-----------------------------------------------------------------------------
(* parse_colleges_and_schools.  An index document is a sequence of blocks,  *)
(* the children of its body in document order:                              *)
(*   [k |-> "h",  text, items |-> <<>>]   an element holding one text node  *)
(*   [k |-> "ul", text |-> <<>>, items]   an unordered list of li items     *)
(*   [k |-> "a",  text |-> <<>>, items |-> <<link>>]  a paragraph with a link *)
(* and a list item is a link or NoLink.                                     *)

\* colleges = {name: [] for name in college_names}     (lines 112-115)
EmptyColleges == [c \in CollegeSet |-> <<>>]

\* all(len(schools) == 0 for schools in colleges.values())
AllEmpty(colleges) == \A c \in CollegeSet : colleges[c] = <<>>

\* the first name of college_names contained in text, or <<>>   (lines 133-137)
FirstCollegeIn(text) ==
    IF \E i \in 1..Len(college_names) : Contains(text, college_names[i])
    THEN college_names[CHOOSE i \in 1..Len(college_names) :
            /\ Contains(text, college_names[i])
            /\ \A m \in 1..(i - 1) : ~Contains(text, college_names[m])]
    ELSE <<>>

\* the school record built from a link (lines 280-308 and 225-249)
SchoolInfo(link, college_name, base) ==
    [name     |-> SchoolNameOf(link.text),
     url      |-> SchoolUrl(link.href, base),
     college  |-> college_name,
     schedule |-> ScheduleOf(link.text),
     code     |-> SchoolCodeOf(link.href)]

\* the list items _process_school_list keeps (lines 268-278)
KeptSchoolItem(item) ==
    item.has /\ item.text # <<>> /\ item.href.form \notin {"none", "anchor"}

RECURSIVE SchoolsOfItems(_, _, _)
SchoolsOfItems(items, college_name, base) ==
    IF items = <<>> THEN <<>>
    ELSE (IF KeptSchoolItem(Head(items))
          THEN <<SchoolInfo(Head(items), college_name, base)>> ELSE <<>>)
         \o SchoolsOfItems(Tail(items), college_name, base)

\* _process_school_list(ul, college_name, colleges)
process_school_list(ul, college_name, colleges, base) ==
    [colleges EXCEPT ![college_name] = @ \o SchoolsOfItems(ul.items, college_name, base)]

RECURSIVE ItemTexts(_)
ItemTexts(items) ==
    IF items = <<>> THEN <<>> ELSE Head(items).text \o ItemTexts(Tail(items))

BlockText(b) == IF b.k = "h" THEN b.text ELSE ItemTexts(b.items)

\* Strategy A (lines 120-154).  A college header is a text node matching
\* "College of", longer than 10 characters; its list is the first ul among the
\* following siblings of its element (the walk up from a child of body finds
\* no other sibling).
IsCollegeHeader(b) ==
    b.k # "ul" /\ Contains(BlockText(b), <<"College of">>) /\ TextLen(BlockText(b)) > 10

NextUl(blocks, i) ==
    IF \E j \in (i + 1)..Len(blocks) : blocks[j].k = "ul"
    THEN CHOOSE j \in (i + 1)..Len(blocks) :
            blocks[j].k = "ul" /\ \A m \in (i + 1)..(j - 1) : blocks[m].k # "ul"
    ELSE 0

RECURSIVE StrategyAFrom(_, _, _, _)
StrategyAFrom(blocks, i, colleges, base) ==
    IF i > Len(blocks) THEN colleges
    ELSE LET name == IF IsCollegeHeader(blocks[i]) THEN FirstCollegeIn(BlockText(blocks[i])) ELSE <<>>
             j    == NextUl(blocks, i)
         IN StrategyAFrom(blocks, i + 1,
                IF name # <<>> /\ j # 0
                THEN process_school_list(blocks[j], name, colleges, base)
                ELSE colleges,
                base)

StrategyA(blocks, colleges, base) == StrategyAFrom(blocks, 1, colleges, base)

\* Strategy B (lines 156-184).  prev_text is gathered walking previous_element
\* back from the ul while it is shorter than 200 characters: every text node
\* and every tag's .text on the way, then (at the start of the document) the
\* whole text of body, html and the document.
WindowChars == 200

\* the texts met walking back across one block, nearest first
RECURSIVE ItemPieces(_)
ItemPieces(items) ==
    IF items = <<>> THEN <<>>
    ELSE LET it == items[Len(items)] IN
         (IF it.has THEN <<it.text, it.text, it.text>> ELSE <<>>)
         \o ItemPieces(SubSeq(items, 1, Len(items) - 1))

BlockPieces(b) ==
    IF b.k = "h" THEN <<b.text, b.text>>
    ELSE IF b.k = "a" THEN ItemPieces(b.items)
    ELSE ItemPieces(b.items) \o <<ItemTexts(b.items)>>

RECURSIVE DocText(_)
DocText(blocks) == IF blocks = <<>> THEN <<>> ELSE BlockText(Head(blocks)) \o DocText(Tail(blocks))

RECURSIVE PiecesBefore(_, _)
PiecesBefore(blocks, j) ==
    IF j <= 1 THEN <<DocText(blocks), DocText(blocks), DocText(blocks)>>
    ELSE BlockPieces(blocks[j - 1]) \o PiecesBefore(blocks, j - 1)

\* while prev and len(prev_text) < 200: prev_text = prev.text + prev_text
RECURSIVE Gather(_, _)
Gather(pieces, prev_text) ==
    IF pieces = <<>> \/ TextLen(Flatten(prev_text)) >= WindowChars THEN prev_text
    ELSE Gather(Tail(pieces), <<Head(pieces)>> \o prev_text)

PrevText(blocks, j) == Gather(PiecesBefore(blocks, j), <<>>)

\* name in prev_text, for the first name of college_names found in it
FirstCollegeInPieces(pieces) ==
    IF \E i \in 1..Len(college_names) : \E p \in Range(pieces) : Contains(p, college_names[i])
    THEN college_names[CHOOSE i \in 1..Len(college_names) :
            /\ \E p \in Range(pieces) : Contains(p, college_names[i])
            /\ \A m \in 1..(i - 1) : \A p \in Range(pieces) : ~Contains(p, college_names[m])]
    ELSE <<>>

RECURSIVE StrategyBFrom(_, _, _, _)
StrategyBFrom(blocks, j, colleges, base) ==
    IF j > Len(blocks) THEN colleges
    ELSE LET name == IF blocks[j].k = "ul" THEN FirstCollegeInPieces(PrevText(blocks, j)) ELSE <<>>
         IN StrategyBFrom(blocks, j + 1,
                IF name # <<>> THEN process_school_list(blocks[j], name, colleges, base)
                ELSE colleges,
                base)

StrategyB(blocks, colleges, base) == StrategyBFrom(blocks, 1, colleges, base)

\* Strategy C (lines 186-252): every link whose text matches "Schedule".
HasSchedule(text) == \E i \in 1..Len(text) : text[i] \in {"Schedule", "(Schedule "}

\* the links of the document, in document order, each with the texts of its
\* ancestors, nearest first (li, ul, then the body; or p, then the body)
RECURSIVE LinksOfItems(_, _)
LinksOfItems(items, outer) ==
    IF items = <<>> THEN <<>>
    ELSE (IF Head(items).has
          THEN <<[link |-> Head(items), anc |-> <<Head(items).text>> \o outer]>>
          ELSE <<>>)
         \o LinksOfItems(Tail(items), outer)

RECURSIVE LinksFrom(_, _)
LinksFrom(blocks, i) ==
    IF i > Len(blocks) THEN <<>>
    ELSE (IF blocks[i].k = "ul"
          THEN LinksOfItems(blocks[i].items, <<ItemTexts(blocks[i].items), DocText(blocks)>>)
          ELSE IF blocks[i].k = "a"
          THEN LinksOfItems(blocks[i].items, <<DocText(blocks)>>)
          ELSE <<>>)
         \o LinksFrom(blocks, i + 1)

\* the walk up the ancestors until one of them holds a college name (lines 200-210)
RECURSIVE CollegeOfAncestors(_)
CollegeOfAncestors(anc) ==
    IF anc = <<>> THEN <<>>
    ELSE IF FirstCollegeIn(Head(anc)) # <<>> THEN FirstCollegeIn(Head(anc))
    ELSE CollegeOfAncestors(Tail(anc))

\* the guess from the link text (lines 213-223)
GuessCollege(text) ==
    IF Contains(text, <<"Edinburgh ", "College of", " Art">>) \/ Contains(text, <<"Divinity">>)
    THEN ArtsName
    ELSE IF Contains(text, <<"Engineering">>) \/ Contains(text, <<"Informatics">>)
    THEN SciName
    ELSE IF Contains(text, <<"Medicine">>) \/ Contains(text, <<"Veterinary">>)
    THEN MedName
    ELSE ArtsName

CollegeOfLink(l) ==
    IF CollegeOfAncestors(l.anc) # <<>> THEN CollegeOfAncestors(l.anc)
    ELSE GuessCollege(l.link.text)

\* href.startswith('http') on a link without href raises AttributeError (line 236)
RECURSIVE StrategyCFrom(_, _, _)
StrategyCFrom(links, colleges, base) ==
    IF links = <<>> THEN [exc |-> "none", colleges |-> colleges]
    ELSE LET l == Head(links) IN
         IF ~HasSchedule(l.link.text) THEN StrategyCFrom(Tail(links), colleges, base)
         ELSE IF l.link.href.form = "none" THEN [exc |-> "AttributeError", colleges |-> colleges]
         ELSE LET college_name == CollegeOfLink(l) IN
              StrategyCFrom(Tail(links),
                  [colleges EXCEPT ![college_name] =
                        @ \o <<SchoolInfo(l.link, college_name, base)>>],
                  base)

StrategyC(blocks, colleges, base) == StrategyCFrom(LinksFrom(blocks, 1), colleges, base)

\* a variant in which every strategy runs and the results are merged
AlwaysFallsBack(colleges) == TRUE

\* the guard of the two fallbacks (lines 157 and 187)
StillEmpty(colleges) == AllEmpty(colleges)

\* a variant in which finding no school at all is an error
RaiseIfEmpty(c) ==
    IF c.exc = "none" /\ AllEmpty(c.colleges)
    THEN [exc |-> "ValueError", colleges |-> c.colleges] ELSE c

FallbackCStrict(blocks, base, b) ==
    IF StillEmpty(b) THEN RaiseIfEmpty(StrategyC(blocks, b, base))
    ELSE [exc |-> "none", colleges |-> b]

\* line 187 on: Strategy C when B left every college empty too
FallbackC(blocks, base, b) ==
    IF StillEmpty(b) THEN StrategyC(blocks, b, base) ELSE [exc |-> "none", colleges |-> b]

\* line 157 on: Strategy B when A left every college empty
FallbackB(blocks, base, a) ==
    FallbackC(blocks, base, IF StillEmpty(a) THEN StrategyB(blocks, a, base) ELSE a)

\* parse_colleges_and_schools(soup), with self.BASE_URL_CURRENT = base
parse_colleges_and_schools(blocks, base) ==
    FallbackB(blocks, base, StrategyA(blocks, EmptyColleges, base))

-----------------------------------------------------------------------------
(* Case conversion and dictionary keys.  A key is a token sequence of       *)
(* lower-case words and "_" separators: 'school_name' is                    *)
(* <<"school", "_", "name">>.                                               *)

\* str.lower(), token by token
LowerTok(t) ==
    CASE t = "A" -> "a" [] t = "B" -> "b" [] t = "C" -> "c" [] t = "D" -> "d"
      [] t = "E" -> "e" [] t = "K" -> "k" [] t = "O" -> "o" [] t = "Y" -> "y"
      [] t = "Code" -> "code" [] t = "Course" -> "course" [] t = "Name" -> "name"
      [] t = "Period" -> "period" [] t = "Credit" -> "credit"
      [] t = "Availability" -> "availability" [] t = "Title" -> "title"
      [] t = "Prohibited" -> "prohibited" [] t = "Combinations" -> "combinations"
      [] t = "Pre-requisites" -> "pre-requisites" [] t = "Quota" -> "quota"
      [] t = "School" -> "school" [] t = "College" -> "college"
      [] t = "Subject" -> "subject" [] t = "URL" -> "url"
      [] t = "Summary" -> "summary" [] t = "Notes" -> "notes"
      [] t = "Index" -> "index" [] t = "Search" -> "search"
      [] t = "P" -> "p" [] t = "S" -> "s" [] t = "Bulletpoints" -> "bulletpoints"
      [] OTHER -> t

Lower(text) == [i \in 1..Len(text) |-> LowerTok(text[i])]

K1(w) == <<w>>
K2(w1, w2) == <<w1, "_", w2>>

KCredits == <<"credit", "s">>     \* 'credits'

\* the keys of a basic course record (lines 504-514)
BasicKeys ==
    {K1("code"), K1("name"), K1("url"), K1("availability"), K1("period"), KCredits,
     K1("subject"), K2("school", "name"), K1("college")}

\* header.lower().replace(' ', '_').replace('/', '_').replace('(', '').replace(')', '')
GenericKey(header) ==
    LET low == Lower(header)
        rep == [i \in 1..Len(low) |-> IF low[i] \in {" ", "/"} THEN "_" ELSE low[i]]
    IN SelectSeq(rep, LAMBDA t : t \notin {"(", ")"})

Put(d, key, value) == DictUpdate(d, [k \in {key} |-> value])

-----------------------------------------------------------------------------
(* parse_course_details.  A detail document has an optional h1/h2 heading   *)
(* and a sequence of tables [cls, caption, rows]; a row is a sequence of    *)
(* cells [tag, text, href, has], tag "th" or "td", has: the cell holds a    *)
(* link (its text is then the link's text).                                 *)

\* the (substring, key) pairs of the four captioned rules, in elif order
OutlineRules ==
    << <<K1("School"), K1("school")>>,
       <<W2("Credit", "level"), K2("credit", "level")>>,
       <<<<"SCQF", " ", "Credit", "s">>, <<"scqf", "_">> \o KCredits>>,
       <<<<"ECTS", " ", "Credit", "s">>, <<"ects", "_">> \o KCredits>>,
       <<K1("Summary"), K1("summary")>>,
       <<W2("Course", "description"), K2("course", "description")>>,
       <<K1("College"), K2("college", "detail")>>,
       <<K1("Availability"), K2("availability", "detail")>> >>

\* a variant of the Entry Requirements rules without the Prohibited Combinations branch
EntryRulesNoProhibited ==
    << <<K1("Pre-requisites"), K2("pre", "requisites")>>,
       <<K1("Co-requisites"), K2("co", "requisites")>>,
       <<W2("Other", "requirements"), K2("other", "requirements")>>,
       <<W2("Additional", "Costs"), K2("additional", "costs")>> >>

\* _extract_entry_requirements (lines 685-694)
EntryRules ==
    << <<K1("Pre-requisites"), K2("pre", "requisites")>>,
       <<K1("Co-requisites"), K2("co", "requisites")>>,
       <<W2("Prohibited", "Combinations"), K2("prohibited", "combinations")>>,
       <<W2("Other", "requirements"), K2("other", "requirements")>>,
       <<W2("Additional", "Costs"), K2("additional", "costs")>> >>

DeliveryRules ==
    << <<W2("Academic", "year"), K2("academic", "year")>>,
       <<W2("Course", "Start"), K2("course", "start")>>,
       <<K1("Timetable"), K1("timetable")>>,
       <<<<"Learning", " ", "and", " ", "Teaching", " ", "activities">>, K2("learning", "activities")>>,
       <<K1("Quota"), K1("quota")>> >>

VisitingRules ==
    << <<K1("Pre-requisites"), K2("visiting", "prerequisites")>>,
       <<<<"High", " ", "Demand", " ", "Course">>, K2("high", "demand")>> >>

\* the key of the first rule whose substring is in the header, or <<>>
RuleKey(rules, header) ==
    IF \E i \in 1..Len(rules) : Contains(header, rules[i][1])
    THEN rules[CHOOSE i \in 1..Len(rules) :
            /\ Contains(header, rules[i][1])
            /\ \A m \in 1..(i - 1) : ~Contains(header, rules[m][1])][2]
    ELSE <<>>

\* one of _extract_course_outline, _extract_entry_requirements,
\* _extract_delivery_info, _extract_visiting_students_info
RECURSIVE ExtractByRules(_, _, _)
ExtractByRules(rules, rows, detailed_info) ==
    IF rows = <<>> THEN detailed_info
    ELSE LET cells == Head(rows) IN
         IF Len(cells) < 2 THEN ExtractByRules(rules, Tail(rows), detailed_info)
         ELSE LET key == RuleKey(rules, cells[1].text) IN
              ExtractByRules(rules, Tail(rows),
                  IF key # <<>> THEN Put(detailed_info, key, cells[2].text)
                  ELSE detailed_info)

\* a variant in which every generic row is stored under 'bulletpoints'
StoredKeyBulletpoints(header) == K1("bulletpoints")

\* the key a generic table row is stored under
StoredKey(header) == GenericKey(header)

\* _extract_generic_table_info
RECURSIVE extract_generic_table_info(_, _)
extract_generic_table_info(rows, detailed_info) ==
    IF rows = <<>> THEN detailed_info
    ELSE LET cells == Head(rows) IN
         IF Len(cells) < 2 THEN extract_generic_table_info(Tail(rows), detailed_info)
         ELSE extract_generic_table_info(Tail(rows),
                  Put(detailed_info, StoredKey(cells[1].text), cells[2].text))

\* the routing of one table by its caption (lines 607-621)
ExtractTable(table, detailed_info) ==
    IF Contains(table.caption, W2("Course", "Outline"))
    THEN ExtractByRules(OutlineRules, table.rows, detailed_info)
    ELSE IF Contains(table.caption, W2("Entry", "Requirements"))
    THEN ExtractByRules(EntryRules, table.rows, detailed_info)
    ELSE IF Contains(table.caption, <<"Course", " ", "Delivery", " ", "Information">>)
    THEN ExtractByRules(DeliveryRules, table.rows, detailed_info)
    ELSE IF Contains(table.caption, <<"Information", " ", "for", " ", "Visiting", " ", "Students">>)
    THEN ExtractByRules(VisitingRules, table.rows, detailed_info)
    ELSE extract_generic_table_info(table.rows, detailed_info)

RECURSIVE ExtractTables(_, _)
ExtractTables(tables, detailed_info) ==
    IF tables = <<>> THEN detailed_info
    ELSE ExtractTables(Tail(tables), ExtractTable(Head(tables), detailed_info))

\* every cell of the document, in document order
RECURSIVE CellsOfRows(_)
CellsOfRows(rows) == IF rows = <<>> THEN <<>> ELSE Head(rows) \o CellsOfRows(Tail(rows))

RECURSIVE CellsOfTables(_)
CellsOfTables(tables) ==
    IF tables = <<>> THEN <<>>
    ELSE CellsOfRows(Head(tables).rows) \o CellsOfTables(Tail(tables))

\* soup.find('td', text=re.compile(w)) or soup.find('th', text=re.compile(w)):
\* the position of that cell, 0 when there is none
FindCell(cells, needle) ==
    LET hit(tag) == {i \in 1..Len(cells) : cells[i].tag = tag /\ Contains(cells[i].text, needle)}
        first(S) == CHOOSE i \in S : \A m \in S : i <= m
    IN IF hit("td") # {} THEN first(hit("td"))
       ELSE IF hit("th") # {} THEN first(hit("th"))
       ELSE 0

\* header.find_next('td'): the position of the next td cell, 0 when there is none
FindNextTd(cells, i) ==
    LET S == {j \in (i + 1)..Len(cells) : cells[j].tag = "td"}
    IN IF S = {} THEN 0 ELSE CHOOSE j \in S : \A m \in S : j <= m

\* lines 623-636
AfterHeaderCell(cells, needle, key, detailed_info) ==
    LET i == FindCell(cells, needle)
        j == IF i = 0 THEN 0 ELSE FindNextTd(cells, i)
    IN IF j # 0 THEN Put(detailed_info, key, cells[j].text) ELSE detailed_info

\* the body of parse_course_details on a fetched document (lines 595-638)
DetailsOfDoc(doc) ==
    LET d0 == IF doc.h.has THEN Put(EmptyDict, K2("full", "title"), doc.h.text) ELSE EmptyDict
        d1 == ExtractTables(doc.tables, d0)
        cells == CellsOfTables(doc.tables)
        d2 == AfterHeaderCell(cells, W2("Course", "description"), K2("course", "description"), d1)
    IN AfterHeaderCell(cells, K1("Summary"), K1("summary"), d2)

\* the state a call threads through its fetches: the base attribute, the
\* requests issued and the debug files written so far
\* What a call has done so far: base the attribute BASE_URL_CURRENT, reqs the
\* requests issued, saved the debug files written, log the calls of
\* parse_course_details completed, in order.
FetchState(base, reqs, saved, log) ==
    [base |-> base, reqs |-> reqs, saved |-> saved, log |-> log]

AfterFetch(fs, r) == FetchState(r.base, fs.reqs \o r.reqs, fs.saved \cup r.saved, fs.log)

\* a variant of the handlers: "except requests.RequestException"
CatchesOnlyRequest(exc) == exc = "RequestException"

\* "except Exception": the handlers of the parse functions catch every exception
CatchesException(exc) == TRUE

\* the result of a parse function: exc the exception it lets through ("none"
\* when it returns), seen the exception that reached its handler
Returned(ret, fs) == [exc |-> "none", seen |-> "none", ret |-> ret, fs |-> fs]

Handled(exc, on_error, fs) ==
    IF CatchesException(exc) THEN [exc |-> "none", seen |-> exc, ret |-> on_error, fs |-> fs]
    ELSE [exc |-> exc, seen |-> exc, ret |-> on_error, fs |-> fs]

\* the history entry of one call of a parse function
CallEntry(fn, url, r) == [fn |-> fn, url |-> url, exc |-> r.exc, seen |-> r.seen, ret |-> r.ret]

Logged(fs, entry) == [fs EXCEPT !.log = Append(@, entry)]

\* a variant in which the handler returns what had been extracted so far
DetailsOnErrorPartial == [k \in {<<"full", "_", "title">>} |-> <<"Intro">>]

\* what parse_course_details returns when an exception reaches its handler (lines 639-641)
DetailsOnError == EmptyDict

\* parse_course_details after its fetch returned or raised r
DetailsAfterFetch(fs, r) ==
    IF r.out = "ok" THEN Returned(DetailsOfDoc(DocAt(r.doc)), AfterFetch(fs, r))
    ELSE Handled(r.out, DetailsOnError, AfterFetch(fs, r))

\* parse_course_details(course_url, basic_info)
parse_course_details(course_url, fs) ==
    DetailsAfterFetch(fs, fetch_page(course_url, fs.base))

-----------------------------------------------------------------------------
(* parse_courses *)

IsUpper(t) == t \in {"A", "B", "C", "D", "E", "K", "O", "P", "S", "Y"}
IsDigit(t) == t \in {"0", "1", "2", "3", "4", "5", "6", "7", "8", "9"}

\* the length of the run of tokens of one class starting at position i
RECURSIVE UpperRun(_, _)
UpperRun(text, i) ==
    IF i <= Len(text) /\ IsUpper(text[i]) THEN 1 + UpperRun(text, i + 1) ELSE 0

RECURSIVE DigitRun(_, _)
DigitRun(text, i) ==
    IF i <= Len(text) /\ IsDigit(text[i]) THEN 1 + DigitRun(text, i + 1) ELSE 0

MinLetters == 2     \* [A-Z]{2,}
MinDigits  == 4     \* [0-9]{4,}

\* [A-Z]{2,}[0-9]{4,} matches at position i
MatchesAt(text, i) ==
    UpperRun(text, i) >= MinLetters /\ DigitRun(text, i + UpperRun(text, i)) >= MinDigits

\* re.match(r'^[A-Z]{2,}[0-9]{4,}$', course_code)     (line 500)
CodeMatches(code) ==
    /\ code # <<>>
    /\ MatchesAt(code, 1)
    /\ UpperRun(code, 1) + DigitRun(code, 1 + UpperRun(code, 1)) = Len(code)

\* re.compile(r'[A-Z]{2,}[0-9]{4,}').search(text).group(0), <<>> when no match
CodeSearch(text) ==
    IF \E i \in 1..Len(text) : MatchesAt(text, i)
    THEN LET i == CHOOSE k \in 1..Len(text) :
                      MatchesAt(text, k) /\ \A m \in 1..(k - 1) : ~MatchesAt(text, m)
             u == UpperRun(text, i)
         IN SubSeq(text, i, i + u + DigitRun(text, i + u) - 1)
    ELSE <<>>

\* a URL and an href as text
UrlText(url) == <<url.ed, "/dpt/">> \o url.file
HrefText(href) == IF href.form = "abs" THEN <<href.ed, "/dpt/">> \o href.file ELSE href.file

\* soup.find_all('table', class_='sitstablegrid') or soup.find_all('table')
CourseTables(doc) ==
    IF \E i \in 1..Len(doc.tables) : doc.tables[i].cls
    THEN SelectSeq(doc.tables, LAMBDA t : t.cls)
    ELSE doc.tables

\* [th.get_text(strip=True).lower() for th in table.find_all('th')]
Headers(table) ==
    LET ths == SelectSeq(CellsOfRows(table.rows), LAMBDA c : c.tag = "th")
    IN [i \in 1..Len(ths) |-> Lower(ths[i].text)]

\* line 428
LooksLikeCourseTable(headers) ==
    /\ headers # <<>>
    /\ \E w \in {"code", "course", "name"} : \E i \in 1..Len(headers) : Contains(headers[i], <<w>>)

\* next((i for i, h in enumerate(headers) if needle in h), default), 0-based
ColumnIndex(headers, needle, default) ==
    IF \E i \in 1..Len(headers) : Contains(headers[i], needle)
    THEN (CHOOSE i \in 1..Len(headers) :
            /\ Contains(headers[i], needle)
            /\ \A m \in 1..(i - 1) : ~Contains(headers[m], needle)) - 1
    ELSE default

\* a variant that looks for a 'title' column instead of a 'name' column
name_idx_title(headers)   == ColumnIndex(headers, <<"title">>, 2)

code_idx(headers)         == ColumnIndex(headers, <<"code">>, 0)
availability_idx(headers) == ColumnIndex(headers, <<"availability">>, 1)
name_idx(headers)         == ColumnIndex(headers, <<"name">>, 2)
period_idx(headers)       == ColumnIndex(headers, <<"period">>, 3)
credits_idx(headers)      == ColumnIndex(headers, <<"credit">>, 4)

\* cells[idx].get_text(strip=True) if idx < len(cells) else ""
CellText(cells, idx) == IF idx < Len(cells) THEN cells[idx + 1].text ELSE <<>>

\* the words that mark a header or legend row (lines 492, 496), as characters
LabelWords ==
    { <<"c", "o", "u", "r", "s", "e">>, <<"c", "o", "d", "e">>, <<"k", "e", "y">>,
      <<"l", "e", "g", "e", "n", "d">>, <<"a", "v", "a", "i", "l", "a", "b", "l", "e">>,
      <<"course">>, <<"code">>, <<"key">>, <<"legend">>, <<"available">> }

\* the row filter of the table scan (lines 487-501)
AcceptedCode(course_code) == CodeMatches(course_code)

RowKept(course_code, course_name) ==
    /\ course_code # <<>> /\ course_name # <<>>
    /\ \A w \in LabelWords : ~Contains(Lower(course_code), w)
    /\ AcceptedCode(course_code)

\* the basic record (lines 504-514 and 561-571)
CourseInfo(code, name, url, availability, period, credits, subject_info) ==
    [k \in BasicKeys |->
        CASE k = K1("code") -> code
          [] k = K1("name") -> name
          [] k = K1("url") -> url
          [] k = K1("availability") -> availability
          [] k = K1("period") -> period
          [] k = KCredits -> credits
          [] k = K1("subject") -> subject_info.name
          [] k = K2("school", "name") -> subject_info.school_name
          [] k = K1("college") -> subject_info.college]

\* course_info.update(detailed_info)   (lines 520 and 577)
MergeDetails(course_info, detailed_info) == DictUpdate(course_info, detailed_info)

\* lines 518-524: the details d merged into the record (the handler of line
\* 521 leaves the record as it is), and the record appended
AppendDetailed(acc, course_info, course_url, d) ==
    [courses |-> Append(acc.courses,
                        IF d.exc = "none" THEN MergeDetails(course_info, d.ret) ELSE course_info),
     fs |-> Logged(d.fs, CallEntry("parse_course_details", course_url, d))]

\* lines 516-524: the detail fetch and merge of one course, appended to acc
\* (acc: [courses, fs]); has_url: course_url is not empty
WithDetails(acc, course_info, has_url, course_url) ==
    IF has_url
    THEN AppendDetailed(acc, course_info, course_url,
                        parse_course_details(course_url, acc.fs))
    ELSE [courses |-> Append(acc.courses, course_info), fs |-> acc.fs]

\* one row of a course table (lines 441-525)
CourseOfRow(row, headers, subject_url, subject_info, acc) ==
    LET cells == SelectSeq(row, LAMBDA c : c.tag = "td")
        ci0   == code_idx(headers)
        ni0   == name_idx(headers)
    IN IF Len(cells) <= Max(ci0, ni0) THEN acc
       ELSE LET course_code == CellText(cells, ci0)
                name_cell   == cells[ni0 + 1]
                course_name == name_cell.text
                has_url     == name_cell.has /\ name_cell.href.form # "none"
                course_url  == SiblingUrl(name_cell.href, subject_url)
            IN IF ~RowKept(course_code, course_name) THEN acc
               ELSE WithDetails(acc,
                        CourseInfo(course_code, course_name,
                                   IF has_url THEN UrlText(course_url) ELSE <<>>,
                                   CellText(cells, availability_idx(headers)),
                                   CellText(cells, period_idx(headers)),
                                   CellText(cells, credits_idx(headers)),
                                   subject_info),
                        has_url, course_url)

RECURSIVE CoursesOfRows(_, _, _, _, _)
CoursesOfRows(rows, headers, subject_url, subject_info, acc) ==
    IF rows = <<>> THEN acc
    ELSE CoursesOfRows(Tail(rows), headers, subject_url, subject_info,
             CourseOfRow(Head(rows), headers, subject_url, subject_info, acc))

RECURSIVE CoursesOfTables(_, _, _, _)
CoursesOfTables(tables, subject_url, subject_info, acc) ==
    IF tables = <<>> THEN acc
    ELSE LET headers == Headers(Head(tables)) IN
         CoursesOfTables(Tail(tables), subject_url, subject_info,
             IF LooksLikeCourseTable(headers)
             THEN CoursesOfRows(Head(tables).rows, headers, subject_url, subject_info, acc)
             ELSE acc)

\* soup.find_all('a'): the links in the table cells, then the other links
AllLinks(doc) ==
    SelectSeq(CellsOfTables(doc.tables), LAMBDA c : c.has) \o doc.links

\* one link of the link scan (lines 530-582)
CourseOfLink(link, subject_url, subject_info, acc) ==
    IF link.href.form = "none" \/ link.text = <<>> THEN acc
    ELSE IF Contains(Lower(HrefText(link.href)), <<"index">>) \/ link.href.form = "anchor" THEN acc
    ELSE LET course_code == IF CodeSearch(link.text) # <<>> THEN CodeSearch(link.text)
                            ELSE CodeSearch(HrefText(link.href))
             course_url  == SiblingUrl(link.href, subject_url)
         IN IF course_code = <<>> THEN acc
            ELSE WithDetails(acc,
                     CourseInfo(course_code, link.text, UrlText(course_url),
                                <<>>, <<>>, <<>>, subject_info),
                     TRUE, course_url)

RECURSIVE CoursesOfLinks(_, _, _, _)
CoursesOfLinks(links, subject_url, subject_info, acc) ==
    IF links = <<>> THEN acc
    ELSE CoursesOfLinks(Tail(links), subject_url, subject_info,
             CourseOfLink(Head(links), subject_url, subject_info, acc))

\* a variant in which the link scan always runs
RunsLinkScanAlways(courses) == TRUE

\* whether the link scan runs after the table scan (line 528)
RunsLinkScan(courses) == courses = <<>>

\* a variant in which the handler returns a placeholder record
CoursesOnErrorPlaceholder == <<[k \in {<<"code">>} |-> <<>>]>>

\* what parse_courses returns when an exception reaches its handler (lines 586-588)
CoursesOnError == <<>>

ReturnedCourses(acc) == Returned(acc.courses, acc.fs)

\* lines 527-585: the link scan when the table scan t found nothing
CoursesAfterTables(subject_url, subject_info, doc, t) ==
    ReturnedCourses(IF RunsLinkScan(t.courses)
                    THEN CoursesOfLinks(AllLinks(doc), subject_url, subject_info, t)
                    ELSE t)

\* parse_courses after its fetch returned or raised r
CoursesAfterFetch(subject_url, subject_info, fs, r) ==
    IF r.out # "ok" THEN Handled(r.out, CoursesOnError, AfterFetch(fs, r))
    ELSE CoursesAfterTables(subject_url, subject_info, DocAt(r.doc),
             CoursesOfTables(CourseTables(DocAt(r.doc)), subject_url, subject_info,
                             [courses |-> <<>>, fs |-> AfterFetch(fs, r)]))

\* parse_courses(subject_url, subject_info)
parse_courses(subject_url, subject_info, fs) ==
    CoursesAfterFetch(subject_url, subject_info, fs, fetch_page(subject_url, fs.base))

-----------------------------------------------------------------------------
(* parse_school_subjects.  A school document has its li items (items), and  *)
(* optionally a main-content region (hasContent) with its links outside     *)
(* list items (content).                                                    *)

\* the navigation filter (lines 336 and 375)
IsNavHref(href) ==
    \/ href.form = "anchor"
    \/ \E w \in {"index", "search", "regulations"} : Contains(Lower(HrefText(href)), <<w>>)

SubjectInfo(link, school_url, school_info) ==
    [name        |-> link.text,
     url         |-> SiblingUrl(link.href, school_url),
     school_name |-> school_info.name,
     school_code |-> school_info.code,
     college     |-> school_info.college]

RECURSIVE SubjectsOfLinks(_, _, _)
SubjectsOfLinks(links, school_url, school_info) ==
    IF links = <<>> THEN <<>>
    ELSE LET l == Head(links) IN
         (IF l.has /\ l.href.form # "none" /\ l.text # <<>> /\ ~IsNavHref(l.href)
          THEN <<SubjectInfo(l, school_url, school_info)>> ELSE <<>>)
         \o SubjectsOfLinks(Tail(links), school_url, school_info)

\* a variant without the removal of duplicates
UniqueSubjectsKeepAll(subs, seen_names) == subs

\* lines 398-405: the first subject of every name
RECURSIVE UniqueSubjects(_, _)
UniqueSubjects(subs, seen_names) ==
    IF subs = <<>> THEN <<>>
    ELSE IF Head(subs).name \in seen_names THEN UniqueSubjects(Tail(subs), seen_names)
    ELSE <<Head(subs)>> \o UniqueSubjects(Tail(subs), seen_names \cup {Head(subs).name})

\* what parse_school_subjects returns when an exception reaches its handler (lines 409-411)
SubjectsOnError == <<>>

\* lines 322-408 on the fetched document
SubjectsOfDoc(doc, school_url, school_info) ==
    LET first == SubjectsOfLinks(doc.items, school_url, school_info)
        found == IF first = <<>> /\ doc.hasContent
                 THEN SubjectsOfLinks(doc.content, school_url, school_info)
                 ELSE first
    IN UniqueSubjects(found, {})

\* parse_school_subjects after its fetch returned or raised r
SubjectsAfterFetch(school_url, school_info, fs, r) ==
    IF r.out # "ok" THEN Handled(r.out, SubjectsOnError, AfterFetch(fs, r))
    ELSE Returned(SubjectsOfDoc(DocAt(r.doc), school_url, school_info), AfterFetch(fs, r))

\* parse_school_subjects(school_url, school_info)
parse_school_subjects(school_url, school_info, fs) ==
    SubjectsAfterFetch(school_url, school_info, fs, fetch_page(school_url, fs.base))

-----------------------------------------------------------------------------
(* save_to_json and the output paths *)

\* college_name.replace(' ', '_') + ".json" under colleges/
CollegeFile(college_name) == <<"colleges", college_name>>

\* school['code'] + ".json" under schools/
SchoolFile(school) == <<"schools", school.code>>

\* name.replace(' ', '_').replace(',', '').replace('(', '').replace(')', '').replace('/', '_')
SanitizedName(name) ==
    LET rep == [i \in 1..Len(name) |-> IF name[i] \in {" ", "/"} THEN "_" ELSE name[i]]
    IN SelectSeq(rep, LAMBDA t : t \notin {",", "(", ")"})

\* "courses_" + sanitized school name + ".json" under courses/
CoursesFile(school) == <<"courses", SanitizedName(school.name)>>

AllCollegesFile == <<"summary", <<"all_colleges">>>>
AllSchoolsFile  == <<"summary", <<"all_schools">>>>

\* save_to_json(data, filename): TRUE when open() raises IOError, which the
\* handler logs and re-raises (lines 759-761)
SaveRaises(filename) == filename \in unwritable

-----------------------------------------------------------------------------
(* Output paths of the reference site *)

\* the output paths of a crawl of this site
CrawlPaths ==
    {CollegeFile(c) : c \in CollegeSet}
    \cup {<<"schools", <<"su1">>>>, <<"schools", <<"su2">>>>}
    \cup {<<"courses", <<"School of ", "Divinity">>>>, <<"courses", <<"School of ", "Informatics">>>>}
    \cup {AllCollegesFile, AllSchoolsFile}

-----------------------------------------------------------------------------
(* Fault scenarios *)

\* the subsets of S with at most n elements
RECURSIVE SubsetsUpTo(_, _)
SubsetsUpTo(S, n) ==
    IF n = 0 THEN {{}}
    ELSE LET smaller == SubsetsUpTo(S, n - 1) IN smaller \cup {T \cup {x} : T \in smaller, x \in S}

\* the fault scenarios: URLs that are down, documents the parser rejects and
\* paths that cannot be written, at most MaxFaults in all
FaultItems(urls, paths) ==
    {<<"down", u>> : u \in urls} \cup {<<"bad", u>> : u \in urls} \cup {<<"nowrite", p>> : p \in paths}

Faults(urls, paths) == SubsetsUpTo(FaultItems(urls, paths), MaxFaults)

\* the pages of the current edition a scenario may serve with nothing in them:
\* the index, a school page, a subject page and a course page
EmptyPages ==
    {Url(BASE_URL_CURRENT_0, f) :
        f \in {IndexFile, F("cx_s_", "su1"), F("cx_sb_", "s1"), F("cx", "c1")}}

EmptyItems == {<<"empty", u>> : u \in EmptyPages}

Tagged(f, tag) == {x[2] : x \in {y \in f : y[1] = tag}}

-----------------------------------------------------------------------------
(* scrape_all, one action per statement group of the orchestrator.          *)
(* pc: "index" -> "college" -> "school" -> "subject" -> "courses" -> ...    *)
(*     -> "summary" -> "done", or "raised" when an exception propagates.    *)

Fs0 == FetchState(BASE_URL_CURRENT, <<>>, {}, <<>>)

\* files with the debug captures of a call added
Captured(fs) ==
    [p \in (DOMAIN files) \cup fs.saved |-> IF p \in fs.saved THEN <<"html">> ELSE files[p]]

\* the fetch state of a call folded into the scraper and the histories
Commit(fs) ==
    /\ BASE_URL_CURRENT' = fs.base
    /\ requests' = requests \o fs.reqs
    /\ files' = Captured(fs)

\* save_to_json into files1
Saved(files1, filename, data) == Put(files1, filename, data)

CurrentCollege == college_names[ci]
CurrentSchool  == colleges_data[CurrentCollege][si]

\* a variant in which the colleges after the first one with schools are skipped
AfterSchoolThenSummary(c, s) ==
    IF s < Len(colleges_data[college_names[c]]) THEN [pc |-> "school", ci |-> c, si |-> s + 1]
    ELSE IF c < Len(college_names) /\ s = 0 THEN [pc |-> "college", ci |-> c + 1, si |-> 0]
    ELSE [pc |-> "summary", ci |-> c, si |-> s]

\* a variant with a retry loop: a school that yielded no course is processed again
AfterSchoolRetry(c, s) ==
    IF s > 0 /\ all_courses = <<>> THEN [pc |-> "school", ci |-> c, si |-> s]
    ELSE IF s < Len(colleges_data[college_names[c]]) THEN [pc |-> "school", ci |-> c, si |-> s + 1]
    ELSE IF c < Len(college_names) THEN [pc |-> "college", ci |-> c + 1, si |-> 0]
    ELSE [pc |-> "summary", ci |-> c, si |-> s]

\* where the loops of lines 782-822 go after the school (ci, si)
AfterSchool(c, s) ==
    IF s < Len(colleges_data[college_names[c]]) THEN [pc |-> "school", ci |-> c, si |-> s + 1]
    ELSE IF c < Len(college_names) THEN [pc |-> "college", ci |-> c + 1, si |-> 0]
    ELSE [pc |-> "summary", ci |-> c, si |-> s]

\* the index URL scrape_all falls back to (line 775)
FallbackIndexUrl == SCHOOLS_INDEX_URL_PREVIOUS

\* parse_colleges_and_schools on what fetch_page returned, or the exception it raised
ParsedIndex(r) ==
    IF r.out = "ok" THEN parse_colleges_and_schools(DocAt(r.doc).blocks, r.base)
    ELSE [exc |-> r.out, colleges |-> EmptyColleges]

IndexResult(fs, p) == [exc |-> p.exc, colleges |-> p.colleges, fs |-> fs]

\* lines 775-776
IndexAfterPrevious(fs1, r2) == IndexResult(AfterFetch(fs1, r2), ParsedIndex(r2))

\* lines 772-776: the handler of the first attempt
IndexFallback(fs1, p1) ==
    IF p1.exc = "none" THEN IndexResult(fs1, p1)
    ELSE IndexAfterPrevious(fs1, fetch_page(FallbackIndexUrl, fs1.base))

\* lines 770-771
IndexAfterCurrent(fs, r1) == IndexFallback(AfterFetch(fs, r1), ParsedIndex(r1))

\* lines 768-776: the index of the current edition, then of the previous one
IndexStep(fs) == IndexAfterCurrent(fs, fetch_page(SCHOOLS_INDEX_URL_CURRENT, fs.base))

ScrapeIndexWith(r) ==
    /\ Commit(r.fs)
    /\ IF r.exc = "none"
       THEN /\ colleges_data' = r.colleges
            /\ pc' = "college"
            /\ ci' = 1
            /\ raised' = raised
       ELSE /\ pc' = "raised"
            /\ raised' = r.exc
            /\ UNCHANGED <<colleges_data, ci>>

ScrapeIndex ==
    /\ pc = "index"
    /\ ScrapeIndexWith(IndexStep(Fs0))
    /\ UNCHANGED <<try_previous_year, debug, envVars, calls, all_colleges, all_schools,
                   si, subjects, ji, all_courses>>

\* a variant in which the write error is swallowed and the run ends normally
OnSaveErrorSwallowed == [pc |-> "done", raised |-> "none"]

\* what scrape_all does when save_to_json raised (no handler before line 833)
OnSaveError == [pc |-> "raised", raised |-> "IOError"]

\* lines 782-791: the college record and the college file
ProcessCollege ==
    /\ pc = "college"
    /\ all_colleges' = Append(all_colleges,
            [name |-> CurrentCollege, schools_count |-> Len(colleges_data[CurrentCollege])])
    /\ IF SaveRaises(CollegeFile(CurrentCollege))
       THEN /\ pc' = OnSaveError.pc /\ raised' = OnSaveError.raised
            /\ UNCHANGED <<files, ci, si>>
       ELSE /\ files' = Saved(files, CollegeFile(CurrentCollege),
                              [name |-> CurrentCollege, schools |-> colleges_data[CurrentCollege]])
            /\ LET n == AfterSchool(ci, 0) IN pc' = n.pc /\ ci' = n.ci /\ si' = n.si
            /\ raised' = raised
    /\ UNCHANGED <<scraperVars, envVars, requests, calls, colleges_data, all_schools,
                   subjects, ji, all_courses>>

ProcessSchoolWith(r) ==
    /\ BASE_URL_CURRENT' = r.fs.base
    /\ requests' = requests \o r.fs.reqs
    /\ calls' = Append(calls \o r.fs.log,
                        CallEntry("parse_school_subjects", CurrentSchool.url, r))
    /\ IF r.exc # "none"
       THEN /\ pc' = "raised" /\ raised' = r.exc
            /\ files' = Captured(r.fs)
            /\ UNCHANGED <<subjects, ji, all_courses>>
       ELSE /\ subjects' = r.ret
            /\ IF SaveRaises(SchoolFile(CurrentSchool))
               THEN /\ pc' = OnSaveError.pc /\ raised' = OnSaveError.raised
                    /\ files' = Captured(r.fs)
                    /\ UNCHANGED <<ji, all_courses>>
               ELSE /\ files' = Saved(Captured(r.fs), SchoolFile(CurrentSchool),
                                      [school |-> CurrentSchool, subjects |-> r.ret])
                    /\ all_courses' = <<>>
                    /\ ji' = 1
                    /\ pc' = IF r.ret = <<>> THEN "courses" ELSE "subject"
                    /\ raised' = raised

\* lines 794-806: the school record, its subjects and the school file
ProcessSchool ==
    /\ pc = "school"
    /\ all_schools' = Append(all_schools, CurrentSchool)
    /\ ProcessSchoolWith(parse_school_subjects(CurrentSchool.url, CurrentSchool, Fs0))
    /\ UNCHANGED <<try_previous_year, debug, envVars, colleges_data, all_colleges, ci, si>>

\* a variant in which each subject's courses go in front of the earlier ones
ExtendFront(all, courses) == courses \o all

\* all_courses.extend(courses)   (line 813)
Extend(all, courses) == all \o courses

ScrapeSubjectWith(r) ==
    /\ Commit(r.fs)
    /\ calls' = Append(calls \o r.fs.log, CallEntry("parse_courses", subjects[ji].url, r))
    /\ IF r.exc # "none"
       THEN /\ pc' = "raised" /\ raised' = r.exc
            /\ UNCHANGED <<all_courses, ji>>
       ELSE /\ all_courses' = Extend(all_courses, r.ret)
            /\ ji' = ji + 1
            /\ pc' = IF ji < Len(subjects) THEN "subject" ELSE "courses"
            /\ raised' = raised

\* lines 810-816: the courses of one subject
ScrapeSubject ==
    /\ pc = "subject"
    /\ ScrapeSubjectWith(parse_courses(subjects[ji].url, subjects[ji], Fs0))
    /\ UNCHANGED <<try_previous_year, debug, envVars, colleges_data, all_colleges,
                   all_schools, ci, si, subjects>>

\* lines 818-822: the course file of the school
SaveCourses ==
    /\ pc = "courses"
    /\ IF SaveRaises(CoursesFile(CurrentSchool))
       THEN /\ pc' = OnSaveError.pc /\ raised' = OnSaveError.raised
            /\ UNCHANGED <<files, ci, si>>
       ELSE /\ files' = Saved(files, CoursesFile(CurrentSchool), all_courses)
            /\ LET n == AfterSchool(ci, si) IN pc' = n.pc /\ ci' = n.ci /\ si' = n.si
            /\ raised' = raised
    /\ UNCHANGED <<scraperVars, envVars, requests, calls, colleges_data, all_colleges,
                   all_schools, subjects, ji, all_courses>>

\* lines 824-832: the two summary files and the returned counts
SaveSummary ==
    /\ pc = "summary"
    /\ IF SaveRaises(AllCollegesFile)
       THEN /\ pc' = OnSaveError.pc /\ raised' = OnSaveError.raised
            /\ UNCHANGED files
       ELSE IF SaveRaises(AllSchoolsFile)
       THEN /\ pc' = OnSaveError.pc /\ raised' = OnSaveError.raised
            /\ files' = Saved(files, AllCollegesFile, all_colleges)
       ELSE /\ files' = Saved(Saved(files, AllCollegesFile, all_colleges),
                              AllSchoolsFile, all_schools)
            /\ pc' = "done"
            /\ raised' = raised
    /\ UNCHANGED <<scraperVars, envVars, requests, calls, crawlVars>>

\* a scraper as __init__ leaves it (lines 26-53), with nothing crawled yet
InitScraper ==
    /\ try_previous_year \in BOOLEAN
    /\ debug \in BOOLEAN
    /\ BASE_URL_CURRENT = BASE_URL_CURRENT_0
    /\ requests = <<>>
    /\ files = EmptyDict
    /\ calls = <<>>
    /\ colleges_data = EmptyColleges
    /\ all_colleges = <<>>
    /\ all_schools = <<>>
    /\ ci = 0 /\ si = 0 /\ ji = 0
    /\ subjects = <<>>
    /\ all_courses = <<>>
    /\ raised = "none"

\* the environment of a crawl: editions wholly down, single faults, and
\* pages served with nothing in them
Init ==
    /\ InitScraper
    /\ pc = "index"
    /\ outage \in SUBSET Editions
    /\ \E f \in SubsetsUpTo(FaultItems(CrawlUrls, CrawlPaths \cup CrawlCaptures) \cup EmptyItems,
                            MaxFaults) :
          /\ down = Tagged(f, "down")
          /\ unwritable = Tagged(f, "nowrite")
          /\ site = [u \in Tagged(f, "bad") \cup Tagged(f, "empty") |->
                        IF u \in Tagged(f, "bad") THEN RejectedDoc ELSE EmptyDoc]

Next ==
    \/ ScrapeIndex
    \/ ProcessCollege
    \/ ProcessSchool
    \/ ScrapeSubject
    \/ SaveCourses
    \/ SaveSummary

Spec == Init /\ [][Next]_vars

-----------------------------------------------------------------------------
(* The crawl on a site whose index holds two college headers followed by    *)
(* one list: the school of the list is found under both colleges.           *)

RelistedIndex ==
    IndexDoc(<< H(ArtsName), H(SciName),
                Ul(<<Link(Rel(F("cx_s_", "su1")),
                          <<"School of ", "Divinity", " ", "(Schedule ", "A", ")">>)>>) >>)

IndexUrls == {SCHOOLS_INDEX_URL_CURRENT, SCHOOLS_INDEX_URL_PREVIOUS}

InitRelisted ==
    /\ InitScraper
    /\ pc = "index"
    /\ outage \in SUBSET Editions
    /\ \E f \in SubsetsUpTo(FaultItems(CrawlUrls, CrawlPaths \cup CrawlCaptures) \cup EmptyItems,
                            MaxFaults) :
          /\ down = Tagged(f, "down")
          /\ unwritable = Tagged(f, "nowrite")
          /\ site = [u \in Tagged(f, "bad") \cup Tagged(f, "empty") \cup IndexUrls |->
                        IF u \in Tagged(f, "bad") THEN RejectedDoc
                        ELSE IF u \in Tagged(f, "empty") THEN EmptyDoc
                        ELSE RelistedIndex]

SpecRelisted == InitRelisted /\ [][Next]_vars

-----------------------------------------------------------------------------
(* main(): the scraper it creates, the crawl, and what follows the crawl.   *)

\* DRPSScraper(debug=True, try_previous_year=True)   (line 882)
InitMain == Init /\ debug /\ try_previous_year

\* lines 885-888: scrape_all returned, the counts are printed and main returns
MainPrints ==
    /\ pc = "done"
    /\ pc' = "main_returned"
    /\ UNCHANGED <<scraperVars, envVars, requests, files, calls, crawlVars, raised>>

\* lines 889-890: "except Exception" logs what scrape_all raised and main
\* returns (raised keeps what scrape_all raised)
MainCatches ==
    /\ pc = "raised"
    /\ pc' = "main_returned"
    /\ UNCHANGED <<scraperVars, envVars, requests, files, calls, crawlVars, raised>>

NextMain ==
    \/ Next
    \/ MainPrints
    \/ MainCatches

SpecMain == InitMain /\ [][NextMain]_vars

-----------------------------------------------------------------------------
(* The fetcher alone: a driver that calls fetch_page on one URL after       *)
(* another, at most MaxCalls times, on one scraper.                         *)

FetchFiles == {IndexFile, F("cx_s_", "su1")}

FetchUrls == {Url(e, f) : e \in Editions, f \in FetchFiles} \cup {Url("ext", IndexFile)}

FetchCaptures == {DebugFile(u) : u \in FetchUrls}

\* the history entry of one call of fetch_page: before and after are the
\* attribute BASE_URL_CURRENT when the call starts and when it ends
FetchEntry(url, before, r) ==
    [fn |-> "fetch_page", url |-> url, before |-> before, out |-> r.out, doc |-> r.doc,
     after |-> r.base, reqs |-> r.reqs]

FetchPageWith(url, r) ==
    /\ BASE_URL_CURRENT' = r.base
    /\ requests' = requests \o r.reqs
    /\ files' = Captured(r)
    /\ calls' = Append(calls, FetchEntry(url, BASE_URL_CURRENT, r))

\* self.fetch_page(url)
FetchPage ==
    /\ pc = "fetch"
    /\ Len(calls) < MaxCalls
    /\ \E url \in FetchUrls : FetchPageWith(url, fetch_page(url, BASE_URL_CURRENT))
    /\ UNCHANGED <<try_previous_year, debug, envVars, pc, crawlVars, raised>>

InitFetch ==
    /\ InitScraper
    /\ pc = "fetch"
    /\ outage \in SUBSET Editions
    /\ \E f \in Faults(FetchUrls, FetchCaptures) :
          /\ down = Tagged(f, "down")
          /\ unwritable = Tagged(f, "nowrite")
          /\ site = [u \in Tagged(f, "bad") |-> RejectedDoc]

NextFetch == FetchPage

SpecFetch == InitFetch /\ [][NextFetch]_vars

-----------------------------------------------------------------------------
(* The index parser alone: parse_colleges_and_schools on a generated index  *)
(* document of at most MaxBlocks blocks.                                   *)

Su1Link == Link(Rel(F("cx_s_", "su1")), <<"School of ", "Divinity", " ", "(Schedule ", "A", ")">>)
Su2Link == Link(Rel(F("cx_s_", "su2")), <<"School of ", "Informatics">>)
\* two schools whose pages are not named cx_s_<code>.htm
HistoryLink  == Link(Rel(<<"history", ".htm">>), <<"History">>)
ClassicsLink == Link(Rel(<<"classics", ".htm">>), <<"Classics">>)

BlockOptions ==
    { H(ArtsName), H(SciName), H(<<"Long introduction">>),
      Ul(<<Su1Link>>), Ul(<<Su2Link>>), Ul(<<NoLink>>), Ul(<<HistoryLink, ClassicsLink>>),
      A(Link(Rel(F("cx_s_", "su3")), <<"Schedule", " ", "Medicine">>)),
      A(Link(NoHref, <<"Schedule">>)) }

RECURSIVE SeqsUpTo(_, _)
\* the sequences over S of length at most n
SeqsUpTo(S, n) ==
    IF n = 0 THEN {<<>>}
    ELSE LET shorter == SeqsUpTo(S, n - 1) IN shorter \cup {Append(q, x) : q \in shorter, x \in S}

IndexBlocks == DocAt(SCHOOLS_INDEX_URL_CURRENT).blocks

ParseIndexWith(p) ==
    /\ colleges_data' = p.colleges
    /\ raised' = p.exc
    /\ pc' = "returned"

\* self.parse_colleges_and_schools(soup)
ParseIndex ==
    /\ pc = "parse_index"
    /\ ParseIndexWith(parse_colleges_and_schools(IndexBlocks, BASE_URL_CURRENT))
    /\ UNCHANGED <<scraperVars, envVars, requests, files, calls, all_colleges, all_schools,
                   ci, si, subjects, ji, all_courses>>

InitIndex ==
    /\ InitScraper
    /\ pc = "parse_index"
    /\ outage = {} /\ down = {} /\ unwritable = {}
    /\ \E blocks \in SeqsUpTo(BlockOptions, MaxBlocks) :
          site = [u \in {SCHOOLS_INDEX_URL_CURRENT} |-> IndexDoc(blocks)]

NextIndex == ParseIndex

SpecIndex == InitIndex /\ [][NextIndex]_vars

-----------------------------------------------------------------------------
(* The course parser alone: parse_courses on a generated subject page whose *)
(* rows link to one course page, itself generated.                          *)

SubjectUrl == Url(BASE_URL_CURRENT_0, F("cx_sb_", "s1"))
CourseUrl  == Url(BASE_URL_CURRENT_0, F("cx", "c1"))

SubjectInfo1 ==
    [name |-> <<"Divinity">>, url |-> SubjectUrl, school_name |-> <<"School of ", "Divinity">>,
     college |-> ArtsName]

\* candidate codes: accepted, one letter, three digits, lower case, a trailing
\* letter, and two that hold a label word
CodeOptions ==
    { Code1, <<"A", "1", "2", "3", "4">>, <<"A", "B", "1", "2", "3">>,
      <<"a", "b", "1", "2", "3", "4">>, <<"A", "B", "1", "2", "3", "4", "x">>,
      <<"C", "O", "D", "E", "1", "2", "3", "4">>, <<"K", "E", "Y", "1", "2", "3", "4">> }

RowOptions ==
    {CourseRow(c, <<"Intro">>, Rel(F("cx", "c1"))) : c \in CodeOptions}
    \cup {PlainRow(Code3, <<"Theology 1">>), CourseRow(Code2, <<>>, Rel(F("cx", "c1")))}

Psyc1 == <<"P", "S", "Y", "C", "1", "0", "0", "0", "1">>

\* one plain table: header row [Code, Course Name, Period], one data row
\* [PSYC10001, <a href=c1.htm>Intro to Psych</a>, Semester 1]
ScenarioSubjectDoc ==
    SubjectDoc(<<Table(FALSE, <<>>,
                       <<CourseHeader,
                         CourseRow(Psyc1, <<"Intro to Psych">>, Rel(F("cx", "c1")))>>)>>, <<>>)

SubjectDocs ==
    {ScenarioSubjectDoc} \cup
    {SubjectDoc(<<Table(TRUE, <<>>, <<CourseHeader>> \o rows)>>, <<>>) :
        rows \in SeqsUpTo(RowOptions, MaxRows)}
    \cup {SubjectDoc(<<>>, <<l>>) :
            l \in {Link(Rel(F("cx", "c1")), <<"Religion ">> \o Code4),
                   Link(Rel(F("cx", "c1")), <<"Religion ", "a", "b">> \o Code4 \o <<"x">>),
                   Link(Rel(F("cx", "c1")), <<"Religion">>),
                   Link(Rel(IndexFile), Code4)}}
    \cup {SubjectDoc(<<Table(TRUE, <<>>, <<CourseHeader, row>>)>>,
                     <<Link(Rel(F("cx", "c1")), <<"Religion ">> \o Code4)>>) :
            row \in {CourseRow(Code1, <<"Intro">>, Rel(F("cx", "c1"))),
                     CourseRow(<<"A", "1", "2", "3", "4">>, <<"Intro">>, Rel(F("cx", "c1")))}}

DetailDocs ==
    { DetailDoc(NoHeading, <<>>),
      DetailDoc([has |-> TRUE, text |-> <<"Intro">>], <<>>),
      DetailDoc(NoHeading, <<Table(FALSE, <<>>, <<<<Th(<<"Code">>), Td(<<"n/a">>)>>>>)>>),
      DetailDoc(NoHeading, <<Table(FALSE, <<>>, <<<<Th(<<"Notes">>), Td(<<"None">>)>>>>)>>),
      DetailDoc(NoHeading, <<Table(FALSE, <<>>, <<<<Th(<<"Period">>), Td(<<"Semester 2">>)>>>>)>>),
      DetailDoc(NoHeading, <<Table(FALSE, <<>>, <<<<Th(<<"Bulletpoints">>), Td(<<"Two essays">>)>>>>)>>),
      DetailDoc(NoHeading, <<Table(FALSE, W2("Entry", "Requirements"),
                                   <<<<Th(W2("Prohibited", "Combinations")), Td(Code2)>>>>)>>) }

ParseCoursesWith(r) ==
    /\ Commit(r.fs)
    /\ calls' = Append(calls \o r.fs.log, CallEntry("parse_courses", SubjectUrl, r))
    /\ all_courses' = r.ret
    /\ raised' = r.exc
    /\ pc' = "returned"

\* self.parse_courses(subject_url, subject_info)
ParseCourses ==
    /\ pc = "parse_courses"
    /\ ParseCoursesWith(parse_courses(SubjectUrl, SubjectInfo1, Fs0))
    /\ UNCHANGED <<try_previous_year, debug, envVars, colleges_data, all_colleges,
                   all_schools, ci, si, subjects, ji>>

ParseCoursesAgainWith(r) ==
    /\ Commit(r.fs)
    /\ calls' = Append(calls \o r.fs.log, CallEntry("parse_courses", SubjectUrl, r))
    /\ all_courses' = r.ret
    /\ raised' = r.exc
    /\ pc' = "returned_twice"

\* a second self.parse_courses(subject_url, subject_info) on the same scraper
ParseCoursesAgain ==
    /\ pc = "returned"
    /\ ParseCoursesAgainWith(parse_courses(SubjectUrl, SubjectInfo1, Fs0))
    /\ UNCHANGED <<try_previous_year, debug, envVars, colleges_data, all_colleges,
                   all_schools, ci, si, subjects, ji>>

\* the pages served: the generated ones, or a rejected one where the fault is
InitCourses ==
    /\ InitScraper
    /\ pc = "parse_courses"
    /\ outage \in SUBSET {BASE_URL_PREVIOUS}
    /\ unwritable = {}
    /\ \E f \in Faults({SubjectUrl, CourseUrl}, {}) :
       \E sd \in SubjectDocs : \E dd \in DetailDocs :
          /\ down = Tagged(f, "down")
          /\ site = [u \in {SubjectUrl, CourseUrl} |->
                        IF u \in Tagged(f, "bad") THEN RejectedDoc
                        ELSE IF u = SubjectUrl THEN sd ELSE dd]

NextCourses ==
    \/ ParseCourses
    \/ ParseCoursesAgain

SpecCourses == InitCourses /\ [][NextCourses]_vars

-----------------------------------------------------------------------------
(* The detail parser alone: parse_course_details on a generated course page *)
(* with an optional heading and one table of at most MaxRows rows.          *)

Psyc2 == <<"P", "S", "Y", "C", "1", "0", "0", "0", "2">>

ProhibitedRow == <<Th(W2("Prohibited", "Combinations")), Td(Psyc2)>>
NotesRow      == <<Th(<<"Notes">>), Td(<<"None">>)>>

\* the captions the routing of lines 607-621 tells apart, and no caption
CaptionOptions ==
    { <<>>, W2("Course", "Outline"), W2("Entry", "Requirements"),
      <<"Course", " ", "Delivery", " ", "Information">>,
      <<"Information", " ", "for", " ", "Visiting", " ", "Students">> }

\* rows: headers known to one rule, to two, to none, and a row of one cell
DetailRowOptions ==
    { ProhibitedRow, NotesRow,
      <<Th(<<"Summary">>), Td(<<"About">>)>>,
      <<Th(<<"Pre-requisites">>), Td(Code1)>>,
      <<Th(<<"Quota">>), Td(<<"20">>)>>,
      <<Td(<<"Lone">>)>> }

GeneratedDetailDocs ==
    {DetailDoc(h, <<Table(FALSE, cap, rows)>>) :
        h \in {NoHeading, [has |-> TRUE, text |-> <<"Intro">>]},
        cap \in CaptionOptions,
        rows \in SeqsUpTo(DetailRowOptions, MaxRows)}

ParseDetailsWith(r) ==
    /\ Commit(r.fs)
    /\ calls' = Append(calls, CallEntry("parse_course_details", CourseUrl, r))
    /\ raised' = r.exc
    /\ pc' = "returned"

\* self.parse_course_details(course_url, basic_info)
ParseDetails ==
    /\ pc = "parse_details"
    /\ ParseDetailsWith(parse_course_details(CourseUrl, Fs0))
    /\ UNCHANGED <<try_previous_year, debug, envVars, crawlVars>>

InitDetails ==
    /\ InitScraper
    /\ pc = "parse_details"
    /\ outage = {}
    /\ unwritable = {}
    /\ \E f \in Faults({CourseUrl}, {}) : \E dd \in GeneratedDetailDocs :
          /\ down = Tagged(f, "down")
          /\ site = [u \in {CourseUrl} |-> IF u \in Tagged(f, "bad") THEN RejectedDoc ELSE dd]

NextDetails == ParseDetails

SpecDetails == InitDetails /\ [][NextDetails]_vars

-----------------------------------------------------------------------------
(* The subject parser alone: parse_school_subjects on a generated school    *)
(* page: the links of its list items and, optionally, a main-content region *)
(* with links of its own.                                                   *)

SchoolPageUrl == Url(BASE_URL_CURRENT_0, F("cx_s_", "su1"))

SchoolInfo1 ==
    [name |-> <<"School of ", "Divinity">>, url |-> SchoolPageUrl, college |-> ArtsName,
     schedule |-> <<"Schedule ", "A">>, code |-> <<"su1">>]

\* list items: two subjects of one name, a third subject, a navigation link,
\* an item without a link
ItemLinkOptions ==
    { Link(Rel(F("cx_sb_", "s1")), <<"Divinity">>),
      Link(Rel(F("cx_sb_", "s2")), <<"Divinity">>),
      Link(Rel(F("cx_sb_", "s3")), <<"Theology">>),
      Link(Rel(IndexFile), <<"Schools A-Z">>),
      NoLink }

\* main-content links: a subject the list items never hold, one they may
\* hold, and a navigation link
ContentLinkOptions ==
    { Link(Rel(F("cx_sb_", "s4")), <<"Informatics">>),
      Link(Rel(F("cx_sb_", "s2")), <<"Divinity">>),
      Link(Rel(IndexFile), <<"Schools A-Z">>) }

SchoolDocs ==
    {SchoolDoc(items, FALSE, <<>>) : items \in SeqsUpTo(ItemLinkOptions, MaxRows)}
    \cup {SchoolDoc(items, TRUE, content) :
            items \in SeqsUpTo(ItemLinkOptions, MaxRows),
            content \in SeqsUpTo(ContentLinkOptions, MaxRows)}

ParseSubjectsWith(r) ==
    /\ Commit(r.fs)
    /\ calls' = Append(calls, CallEntry("parse_school_subjects", SchoolPageUrl, r))
    /\ subjects' = r.ret
    /\ raised' = r.exc
    /\ pc' = "returned"

\* self.parse_school_subjects(school['url'], school)
ParseSubjects ==
    /\ pc = "parse_subjects"
    /\ ParseSubjectsWith(parse_school_subjects(SchoolPageUrl, SchoolInfo1, Fs0))
    /\ UNCHANGED <<try_previous_year, debug, envVars, colleges_data, all_colleges,
                   all_schools, ci, si, ji, all_courses>>

InitSubjects ==
    /\ InitScraper
    /\ ~debug
    /\ pc = "parse_subjects"
    /\ outage = {}
    /\ unwritable = {}
    /\ \E f \in Faults({SchoolPageUrl}, {}) : \E sd \in SchoolDocs :
          /\ down = Tagged(f, "down")
          /\ site = [u \in {SchoolPageUrl} |-> IF u \in Tagged(f, "bad") THEN RejectedDoc ELSE sd]

NextSubjects == ParseSubjects

SpecSubjects == InitSubjects /\ [][NextSubjects]_vars

-----------------------------------------------------------------------------
(* filter_unavailable_courses.py: filter_unavailable_courses(file_path) on  *)
(* one course file.  A file is [kind, fmt, items]: kind "list", "object"    *)
(* (valid JSON that is not a list) or "invalid"; fmt the layout of its      *)
(* text, "indent2" once json.dump(..., indent=2) has written it; items the  *)
(* elements, each [isdict, d], d the dict of an element that is an object.  *)

JObj(d) == [isdict |-> TRUE, d |-> d]
JStr == [isdict |-> FALSE, d |-> EmptyDict]

NotDelivered == <<"Not delivered this year">>

CourseFilePath == <<"courses", <<"School of ", "Divinity">>>>

\* f"{file_path}.bak"
BackupPath(file_path) == <<file_path[1], file_path[2] \o <<".bak">>>>

\* course.get("period", "")
PeriodOf(course) ==
    IF K1("period") \in DOMAIN course.d THEN course.d[K1("period")] ELSE <<>>

\* a variant in which a course without a period counts as not delivered
IsNotDeliveredOrMissing(course) == PeriodOf(course) \in {NotDelivered, <<>>}

\* period == "Not delivered this year"   (line 84)
IsNotDelivered(course) == PeriodOf(course) = NotDelivered

\* the loop of lines 82-91 from acc = [raised, filtered_courses, removed_courses]:
\* course.get on an element that is not an object raises AttributeError
RECURSIVE FilterLoop(_, _)
FilterLoop(courses, acc) ==
    IF courses = <<>> THEN acc
    ELSE IF ~Head(courses).isdict THEN [acc EXCEPT !.raised = TRUE]
    ELSE IF IsNotDelivered(Head(courses))
    THEN FilterLoop(Tail(courses), [acc EXCEPT !.removed = @ + 1])
    ELSE FilterLoop(Tail(courses), [acc EXCEPT !.filtered = Append(@, Head(courses))])

FilterOutcome(success, removed, files1) ==
    [success |-> success, removed |-> removed, files |-> files1]

\* lines 104-110: the backup copy; a failure is only a warning
WithBackup(fl, file_path) ==
    IF BackupPath(file_path) \in unwritable THEN fl
    ELSE Put(fl, BackupPath(file_path), fl[file_path])

\* lines 94-120: after the loop returned r
FilterAfterLoop(fl, file_path, r) ==
    IF r.raised THEN FilterOutcome(FALSE, 0, fl)
    ELSE IF r.removed > 0
    THEN IF file_path \in unwritable
         THEN FilterOutcome(FALSE, r.removed, WithBackup(fl, file_path))
         ELSE FilterOutcome(TRUE, r.removed,
                  Put(WithBackup(fl, file_path), file_path,
                      [kind |-> "list", fmt |-> "indent2", items |-> r.filtered]))
    ELSE FilterOutcome(TRUE, 0, fl)

\* filter_unavailable_courses(file_path) on the files fl
filter_unavailable_courses(fl, file_path) ==
    IF file_path \notin DOMAIN fl THEN FilterOutcome(FALSE, 0, fl)
    ELSE IF fl[file_path].kind # "list" THEN FilterOutcome(FALSE, 0, fl)
    ELSE FilterAfterLoop(fl, file_path,
             FilterLoop(fl[file_path].items,
                        [raised |-> FALSE, filtered |-> <<>>, removed |-> 0]))

FilterEntry(file_path, before, r) ==
    [fn |-> "filter_unavailable_courses", path |-> file_path, before |-> before,
     success |-> r.success, removed |-> r.removed, after |-> r.files]

FilterFileWith(r, pc1) ==
    /\ files' = r.files
    /\ calls' = Append(calls, FilterEntry(CourseFilePath, files, r))
    /\ pc' = pc1

\* python3 filter_unavailable_courses.py path/to/courses.json
FilterFile ==
    /\ pc = "filter"
    /\ FilterFileWith(filter_unavailable_courses(files, CourseFilePath), "filtered")
    /\ UNCHANGED <<scraperVars, envVars, requests, crawlVars, raised>>

\* the same command once more
FilterFileAgain ==
    /\ pc = "filtered"
    /\ FilterFileWith(filter_unavailable_courses(files, CourseFilePath), "filtered_twice")
    /\ UNCHANGED <<scraperVars, envVars, requests, crawlVars, raised>>

\* the elements a generated course file is made of
CourseItemOptions ==
    { JObj([k \in {K1("name"), K1("period")} |->
                IF k = K1("name") THEN <<"Intro">> ELSE <<"Semester 1">>]),
      JObj([k \in {K1("name"), K1("period")} |->
                IF k = K1("name") THEN <<"Theology 1">> ELSE NotDelivered]),
      JObj([k \in {K1("title"), K1("period")} |->
                IF k = K1("title") THEN <<"Ethics">> ELSE NotDelivered]),
      JObj([k \in {K1("name")} |-> <<"Religion">>]),
      JStr }

CourseFileOptions ==
    {[kind |-> "list", fmt |-> fmt, items |-> items] :
        fmt \in {"compact", "indent2"}, items \in SeqsUpTo(CourseItemOptions, MaxCourses)}
    \cup {[kind |-> k, fmt |-> "compact", items |-> <<>>] : k \in {"object", "invalid"}}

InitFilter ==
    /\ try_previous_year = FALSE /\ debug = FALSE
    /\ BASE_URL_CURRENT = BASE_URL_CURRENT_0
    /\ outage = {} /\ down = {} /\ site = EmptyDict
    /\ unwritable \in SUBSET {CourseFilePath, BackupPath(CourseFilePath)}
    /\ requests = <<>> /\ calls = <<>>
    /\ colleges_data = EmptyColleges
    /\ all_colleges = <<>> /\ all_schools = <<>>
    /\ ci = 0 /\ si = 0 /\ ji = 0
    /\ subjects = <<>> /\ all_courses = <<>>
    /\ raised = "none"
    /\ pc = "filter"
    /\ \/ files = EmptyDict
       \/ \E c \in CourseFileOptions : files = [p \in {CourseFilePath} |-> c]

NextFilter ==
    \/ FilterFile
    \/ FilterFileAgain

SpecFilter == InitFilter /\ [][NextFilter]_vars

-----------------------------------------------------------------------------
(* Properties.  Histories read by the properties:                           *)
(* calls (one entry per completed call) and requests.                       *)

\* the entries of calls made by one function
CallsOf(fn) == SelectSeq(calls, LAMBDA e : e.fn = fn)

\* how often a URL was requested
TimesRequested(url) == Cardinality({i \in DOMAIN requests : requests[i] = url})

\* the course records of a parse_courses result that carry a course URL, and
\* so made one call of parse_course_details each, in order
WithCourseUrl(courses) == SelectSeq(courses, LAMBDA c : c[K1("url")] # <<>>)

\* C1 (as stated): every course record returned by parse_courses, after any
\* detail-page merge, has a code matching ^[A-Z]{2,}[0-9]{4,}$.
C1_CodeAlwaysMatches ==
    pc = "returned" =>
        \A i \in DOMAIN all_courses : CodeMatches(all_courses[i][K1("code")])

\* C2 (as stated): with the fallback enabled, the current edition failing and
\* the previous edition succeeding, the first fetch_page call succeeds and
\* every later call requests previous-edition URLs only.
C2_LaterCallsUsePrevious ==
    ( /\ try_previous_year
      /\ outage = {BASE_URL_CURRENT_0} /\ down = {} /\ unwritable = {} /\ DOMAIN site = {}
      /\ calls # <<>>
      /\ calls[1].url.ed = BASE_URL_CURRENT_0
      /\ \A i \in DOMAIN calls : calls[i].url.ed \in Editions )
    => /\ calls[1].out = "ok"
       /\ \A i \in DOMAIN calls : i > 1 =>
             \A k \in DOMAIN calls[i].reqs : calls[i].reqs[k].ed = BASE_URL_PREVIOUS

PathsOfCrawl ==
    {CollegeFile(c) : c \in CollegeSet} \cup {AllCollegesFile, AllSchoolsFile}
    \cup UNION {{SchoolFile(colleges_data[c][i]), CoursesFile(colleges_data[c][i])} :
                    <<c, i>> \in {x \in CollegeSet \X (1..(2 * MaxBlocks)) :
                                    x[2] \in DOMAIN colleges_data[x[1]]}}

RECURSIVE SchoolsFrom(_)
SchoolsFrom(c) ==
    IF c > Len(college_names) THEN <<>>
    ELSE colleges_data[college_names[c]] \o SchoolsFrom(c + 1)

\* the index has been parsed and every output file of the crawl is writable
IndexParsedAndWritable == ci >= 1 /\ unwritable \cap CrawlPaths = {}

\* scrape_all has returned, having visited every school and written its
\* school file, its course file and the two summary files
ReturnedComplete ==
    /\ pc = "done" /\ raised = "none"
    /\ all_schools = SchoolsFrom(1)
    /\ \A i \in DOMAIN all_schools :
          /\ SchoolFile(all_schools[i]) \in DOMAIN files
          /\ CoursesFile(all_schools[i]) \in DOMAIN files
    /\ {AllCollegesFile, AllSchoolsFile} \subseteq DOMAIN files

\* C4: once the index has been parsed (ci >= 1), for every fault at school,
\* subject and course pages and with every output file writable, scrape_all
\* never raises: it is at one of its steps or has returned; a call that
\* failed returned no data; and when scrape_all has returned it has visited
\* every school and written its school file, its course file and both
\* summary files.
C4_CrawlSurvivesUnitFailures ==
    IndexParsedAndWritable =>
        /\ raised = "none"
        /\ pc \in {"college", "school", "subject", "courses", "summary", "done"}
        /\ \A i \in DOMAIN calls : calls[i].seen # "none" => DOMAIN calls[i].ret = {}
        /\ pc = "done" => ReturnedComplete

C4_Witness ==
    /\ pc = "done"
    /\ unwritable \cap CrawlPaths = {}
    /\ \E i \in DOMAIN calls : calls[i].fn = "parse_school_subjects" /\ calls[i].seen # "none"
    /\ \E i \in DOMAIN calls : calls[i].fn = "parse_courses" /\ calls[i].seen = "none"

\* the calls of parse_courses on one subject page, of either edition
CoursesCalls(file) == SelectSeq(CallsOf("parse_courses"), LAMBDA e : e.url.file = file)

\* the course file of the school with the subjects s1, s2, s3
DivinityCourses == <<"courses", <<"School of ", "Divinity">>>>

CodesOf(courses) == [i \in DOMAIN courses |-> courses[i][K1("code")]]

\* C5: when course extraction for the second of the three subjects s1, s2,
\* s3 of a school raised, the call let no exception through and returned no
\* course, and the course list written for the school is what s1 returned
\* followed by what s3 returned (the courses AB1234, AB1235 and CD1235 when
\* neither of them failed).
C5_SecondSubjectContributesNothing ==
    LET c1 == CoursesCalls(F("cx_sb_", "s1"))
        c2 == CoursesCalls(F("cx_sb_", "s2"))
        c3 == CoursesCalls(F("cx_sb_", "s3"))
    IN ( /\ DivinityCourses \in DOMAIN files
         /\ Len(c1) = 1 /\ Len(c2) = 1 /\ Len(c3) = 1
         /\ c2[1].seen # "none" )
       => /\ c2[1].exc = "none"
          /\ c2[1].ret = <<>>
          /\ files[DivinityCourses] = c1[1].ret \o c3[1].ret
          /\ (c1[1].seen = "none" /\ c3[1].seen = "none"
                /\ \A u \in DOMAIN site : site[u].bad) =>
                CodesOf(files[DivinityCourses]) = <<Code1, Code2, Code4>>

C5_Witness ==
    /\ DivinityCourses \in DOMAIN files
    /\ \E i \in DOMAIN calls :
          /\ calls[i].fn = "parse_courses" /\ calls[i].url.file = F("cx_sb_", "s2")
          /\ calls[i].seen # "none"
    /\ Len(files[DivinityCourses]) = 3

\* C6 (as stated): when the current-edition index cannot be fetched, the
\* previous-edition index is requested exactly once in the whole run, and if
\* that fails too scrape_all raises with nothing processed.
C6_PreviousIndexRequestedOnce ==
    (pc # "index" /\ ~Up(SCHOOLS_INDEX_URL_CURRENT)) =>
        /\ TimesRequested(SCHOOLS_INDEX_URL_PREVIOUS) = 1
        /\ ~Up(SCHOOLS_INDEX_URL_PREVIOUS) =>
              /\ pc = "raised"
              /\ all_colleges = <<>> /\ all_schools = <<>> /\ calls = <<>>

\* C7 (as stated): in debug mode, when the response arrived but its capture
\* file cannot be written, fetch_page still returns the document.
C7_CaptureFailureIgnored ==
    \A i \in DOMAIN calls :
        ( /\ debug
          /\ Up(calls[i].url) /\ ~SoupFails(calls[i].url)
          /\ DebugFile(calls[i].url) \in unwritable )
        => calls[i].out = "ok" /\ calls[i].doc = calls[i].url

\* C8: a course whose detail page could not be fetched or parsed is still in
\* the result of parse_courses, with exactly its basic fields.
C8_DetailFailureKeepsBasicFields ==
    pc = "returned" =>
        LET det  == CallsOf("parse_course_details")
            kept == WithCourseUrl(all_courses)
        IN /\ Len(kept) = Len(det)
           /\ \A k \in DOMAIN det :
                 det[k].seen # "none" =>
                    /\ DOMAIN kept[k] = BasicKeys
                    /\ kept[k][K1("url")] = UrlText(det[k].url)
                    /\ CodeMatches(kept[k][K1("code")])

C8_Witness ==
    /\ pc = "returned"
    /\ all_courses # <<>>
    /\ \E k \in DOMAIN CallsOf("parse_course_details") :
          /\ CallsOf("parse_course_details")[k].seen # "none"
          /\ DOMAIN WithCourseUrl(all_courses)[k] = BasicKeys

\* a call whose URL is under the current base, with the fallback enabled,
\* and whose request and retry both fail
BothRequestsFail(c) ==
    /\ try_previous_year
    /\ BaseInUrl(c.before, c.url)
    /\ ~Up(c.url)
    /\ ~Up(PreviousYearUrl(c.before, c.url))

\* C9: when the request of a URL under the current base fails and the retry
\* against the previous edition fails too, fetch_page raises the fetch error,
\* has issued those two requests and no other, and leaves the base as it was.
C9_DoubleFailureRaises ==
    \A i \in DOMAIN calls :
        BothRequestsFail(calls[i]) =>
            /\ calls[i].out = "RequestException"
            /\ calls[i].reqs = <<calls[i].url, PreviousYearUrl(calls[i].before, calls[i].url)>>
            /\ calls[i].after = calls[i].before

C9_Witness ==
    \E i \in DOMAIN calls :
        /\ BothRequestsFail(calls[i])
        /\ calls[i].url.ed = BASE_URL_CURRENT_0
        /\ BASE_URL_CURRENT = BASE_URL_CURRENT_0
        /\ Len(requests) >= 2

\* each strategy run alone on the index document
OnlyA == StrategyA(IndexBlocks, EmptyColleges, BASE_URL_CURRENT)
OnlyB == StrategyB(IndexBlocks, EmptyColleges, BASE_URL_CURRENT)
OnlyC == StrategyC(IndexBlocks, EmptyColleges, BASE_URL_CURRENT)

\* C10: the result of the index extraction is A's result when A found a
\* school; else B's result alone when B found a school; else C's result.
C10_FirstStrategyThatFindsWins ==
    pc = "returned" =>
        [exc |-> raised, colleges |-> colleges_data] =
            IF ~AllEmpty(OnlyA) THEN [exc |-> "none", colleges |-> OnlyA]
            ELSE IF ~AllEmpty(OnlyB) THEN [exc |-> "none", colleges |-> OnlyB]
            ELSE OnlyC

C10_Witness ==
    /\ pc = "returned"
    /\ AllEmpty(OnlyA) /\ ~AllEmpty(OnlyB) /\ ~AllEmpty(OnlyC.colleges)
    /\ colleges_data = OnlyB

\* how many records of the index result carry the URL u
RecordsWithUrl(u) ==
    Cardinality({<<c, i>> \in CollegeSet \X (1..(2 * MaxBlocks)) :
                    i \in DOMAIN colleges_data[c] /\ colleges_data[c][i].url = u})

\* how many links of the index document lead to the URL u
LinksToUrl(u) ==
    Cardinality({<<j, k>> \in (DOMAIN IndexBlocks) \X (1..(2 * MaxBlocks)) :
                    /\ k \in DOMAIN IndexBlocks[j].items
                    /\ IndexBlocks[j].items[k].has
                    /\ IndexBlocks[j].items[k].href.form # "none"
                    /\ SchoolUrl(IndexBlocks[j].items[k].href, BASE_URL_CURRENT) = u})

IndexSchoolUrls ==
    {colleges_data[c][i].url : <<c, i>> \in
        {<<c, i>> \in CollegeSet \X (1..(2 * MaxBlocks)) : i \in DOMAIN colleges_data[c]}}

\* C11 (as stated): the index result has the three college names as keys,
\* every record carries the name of the college whose list it is in, and a
\* school of the document is in one list only, once.
C11_EachSchoolInOneCollege ==
    (pc = "returned" /\ raised = "none") =>
        /\ DOMAIN colleges_data = CollegeSet
        /\ \A c \in CollegeSet : \A i \in DOMAIN colleges_data[c] :
              colleges_data[c][i].college = c
        /\ \A u \in IndexSchoolUrls : RecordsWithUrl(u) <= LinksToUrl(u)

\* C12: the attribute BASE_URL_CURRENT changes only from the current-edition
\* base to the previous-edition base, and only in a call of fetch_page whose
\* first request failed and whose retry against the previous edition
\* succeeded; so it changes at most once in a run.
C12_BaseWrittenOnce ==
    [][ BASE_URL_CURRENT' # BASE_URL_CURRENT =>
          /\ BASE_URL_CURRENT = BASE_URL_CURRENT_0
          /\ BASE_URL_CURRENT' = BASE_URL_PREVIOUS
          /\ LET c == calls'[Len(calls')] IN
                /\ c.reqs = <<c.url, PreviousYearUrl(c.before, c.url)>>
                /\ c.reqs[2].ed = BASE_URL_PREVIOUS
                /\ ~Up(c.reqs[1])
                /\ Up(c.reqs[2]) ]_vars

C12_Witness ==
    /\ Len(calls) >= 2
    /\ calls[1].before = BASE_URL_CURRENT_0 /\ calls[1].after = BASE_URL_PREVIOUS
    /\ calls[2].before = BASE_URL_PREVIOUS /\ calls[2].after = BASE_URL_PREVIOUS
    /\ calls[2].out = "ok"
    /\ BASE_URL_CURRENT = BASE_URL_PREVIOUS

\* the index in calls of the last parse_school_subjects call (0 if none)
LastSubjectsCall ==
    CHOOSE i \in 0..Len(calls) :
        /\ i > 0 => calls[i].fn = "parse_school_subjects"
        /\ \A k \in (i + 1)..Len(calls) : calls[k].fn # "parse_school_subjects"

\* the parse_courses calls made for the school being processed, in call order
CoursesCallsOfSchool ==
    SelectSeq(SubSeq(calls, LastSubjectsCall + 1, Len(calls)),
              LAMBDA e : e.fn = "parse_courses")

RECURSIVE ConcatRets(_)
ConcatRets(entries) ==
    IF entries = <<>> THEN <<>> ELSE Head(entries).ret \o ConcatRets(Tail(entries))

\* C13: the step that writes a school's course file writes, under the one
\* path of that school, exactly the concatenation of what parse_courses
\* returned for each of the school's subjects, in subject order, each result
\* in its own order.
C13_CourseFileIsConcatenation ==
    [][ (pc = "courses" /\ pc' # "raised") =>
          /\ [j \in DOMAIN CoursesCallsOfSchool |-> CoursesCallsOfSchool[j].url]
                = [j \in DOMAIN subjects |-> subjects[j].url]
          /\ CoursesFile(CurrentSchool) \in DOMAIN files'
          /\ files'[CoursesFile(CurrentSchool)] = ConcatRets(CoursesCallsOfSchool)
          /\ \A q \in DOMAIN files : q # CoursesFile(CurrentSchool) => files'[q] = files[q] ]_vars

C13_Witness ==
    /\ pc = "done"
    /\ \E i, j \in DOMAIN calls :
          /\ i < j
          /\ calls[i].fn = "parse_courses" /\ calls[j].fn = "parse_courses"
          /\ calls[i].ret # <<>> /\ calls[j].ret # <<>>
          /\ \A k \in i..j : calls[k].fn # "parse_school_subjects"
          /\ \E c \in CollegeSet : \E n \in DOMAIN colleges_data[c] :
                /\ CoursesFile(colleges_data[c][n]) \in DOMAIN files
                /\ files[CoursesFile(colleges_data[c][n])] = calls[i].ret \o calls[j].ret

\* the school records parse_colleges_and_schools returned, as (college, position)
IndexSchoolRecords ==
    {<<c, i>> \in CollegeSet \X (1..(2 * MaxBlocks)) : i \in DOMAIN colleges_data[c]}

SchoolAt(x) == colleges_data[x[1]][x[2]]

\* C14 (as stated): two schools found under different URLs are written to
\* different school files and to different course files by scrape_all.
C14_DistinctSchoolsDistinctFiles ==
    (pc = "returned" /\ raised = "none") =>
        \A x, y \in IndexSchoolRecords :
            SchoolAt(x).url # SchoolAt(y).url =>
                /\ SchoolFile(SchoolAt(x)) # SchoolFile(SchoolAt(y))
                /\ CoursesFile(SchoolAt(x)) # CoursesFile(SchoolAt(y))

\* the rows of at least two cells in the tables of the page served at url
TwoCellRows(url) ==
    {DocAt(url).tables[t].rows[n] :
        <<t, n>> \in {<<t, n>> \in (DOMAIN DocAt(url).tables) \X (1..(MaxRows + 1)) :
                        /\ n \in DOMAIN DocAt(url).tables[t].rows
                        /\ Len(DocAt(url).tables[t].rows[n]) >= 2}}

\* the URL of the page the call parsed: its last request
FetchedUrl == requests[Len(requests)]

DetailsReturned ==
    /\ pc = "returned" /\ Len(calls) = 1 /\ requests # <<>>
    /\ calls[1].fn = "parse_course_details" /\ calls[1].seen = "none"

\* C15 (as stated): whichever rule its table was routed to, every row of two
\* cells of a fetched detail page has its value in the returned detail map.
C15_EveryRowCaptured ==
    DetailsReturned =>
        \A row \in TwoCellRows(FetchedUrl) :
            \E k \in DOMAIN calls[1].ret : calls[1].ret[k] = row[2].text

\* the page fetched has a table captioned 'Entry Requirements'
\* with the row [Prohibited Combinations, PSYC10002]
EntryRequirementsScenario ==
    /\ Len(DocAt(FetchedUrl).tables) = 1
    /\ Contains(DocAt(FetchedUrl).tables[1].caption, W2("Entry", "Requirements"))
    /\ \E n \in DOMAIN DocAt(FetchedUrl).tables[1].rows :
          DocAt(FetchedUrl).tables[1].rows[n] = ProhibitedRow

\* C19: for a fetched detail page with a table captioned 'Entry Requirements'
\* that holds the row [Prohibited Combinations, PSYC10002], the map returned
\* by parse_course_details has prohibited_combinations = 'PSYC10002'.
C19_ProhibitedCombinationsExtracted ==
    (DetailsReturned /\ EntryRequirementsScenario) =>
        /\ K2("prohibited", "combinations") \in DOMAIN calls[1].ret
        /\ calls[1].ret[K2("prohibited", "combinations")] = Psyc2

C19_Witness ==
    /\ DetailsReturned
    /\ EntryRequirementsScenario
    /\ DocAt(FetchedUrl).tables[1].rows = <<ProhibitedRow>>
    /\ calls[1].ret = [k \in {K2("prohibited", "combinations")} |-> Psyc2]

\* C16 (as stated): no course record returned by parse_courses has a
\* 'bulletpoints' field.
C16_NoBulletpointsField ==
    \A i \in DOMAIN all_courses : K1("bulletpoints") \notin DOMAIN all_courses[i]

\* the table is handed to _extract_generic_table_info (line 621)
GenericallyRouted(table) ==
    /\ ~Contains(table.caption, W2("Course", "Outline"))
    /\ ~Contains(table.caption, W2("Entry", "Requirements"))
    /\ ~Contains(table.caption, <<"Course", " ", "Delivery", " ", "Information">>)
    /\ ~Contains(table.caption, <<"Information", " ", "for", " ", "Visiting", " ", "Students">>)

\* the values of the rows of doc that the generic rule stores under 'bulletpoints'
BulletpointsRows(doc) ==
    {doc.tables[x[1]].rows[x[2]][2].text :
        x \in {y \in (DOMAIN doc.tables) \X (1..(MaxRows + 1)) :
                 /\ GenericallyRouted(doc.tables[y[1]])
                 /\ y[2] \in DOMAIN doc.tables[y[1]].rows
                 /\ Len(doc.tables[y[1]].rows[y[2]]) >= 2
                 /\ GenericKey(doc.tables[y[1]].rows[y[2]][1].text) = K1("bulletpoints")}}

\* C16 (amended): a course record has a 'bulletpoints' field only when a
\* detail page that was requested and served holds, in a table without one of
\* the four recognised captions, a row whose header normalises to
\* 'bulletpoints'; the field then holds that row's second cell.
C16_BulletpointsOnlyFromPage ==
    \A i \in DOMAIN all_courses :
        K1("bulletpoints") \in DOMAIN all_courses[i] =>
            \E u \in Range(requests) :
                /\ Up(u)
                /\ all_courses[i][K1("bulletpoints")] \in BulletpointsRows(DocAt(u))

C16_Witness ==
    /\ pc = "returned"
    /\ \E i \in DOMAIN all_courses :
          /\ K1("bulletpoints") \in DOMAIN all_courses[i]
          /\ all_courses[i][K1("bulletpoints")] = <<"Two essays">>
          /\ all_courses[i][K1("code")] = Code1

\* C17 (as stated): when both runs fetch the subject page itself, a second
\* parse_courses on the same scraper, with the same pages served, returns the
\* same list of course records as the first.
C17_SecondRunSameResult ==
    (/\ pc = "returned_twice"
     /\ Up(SubjectUrl)
     /\ \A n \in 1..2 : CallsOf("parse_courses")[n].seen = "none") =>
        CallsOf("parse_courses")[1].ret = CallsOf("parse_courses")[2].ret

\* the scenario page was served at the subject URL and parse_courses fetched it
ScenarioParsed ==
    /\ pc = "returned"
    /\ Up(SubjectUrl)
    /\ DocAt(SubjectUrl) = ScenarioSubjectDoc
    /\ calls[Len(calls)].fn = "parse_courses" /\ calls[Len(calls)].seen = "none"

\* the fields the scenario names, with the values it expects
ScenarioFields ==
    [k \in {K1("code"), K1("name"), K1("period"), K1("url")} |->
        CASE k = K1("code") -> Psyc1
          [] k = K1("name") -> <<"Intro to Psych">>
          [] k = K1("period") -> <<"Semester 1">>
          [] k = K1("url") -> UrlText(Url(SubjectUrl.ed, F("cx", "c1")))]

\* C18: for the subject page with one table, header row [Code, Course Name,
\* Period] and the data row [PSYC10001, link 'Intro to Psych' to c1.htm,
\* Semester 1], parse_courses returns exactly one course, for which one call
\* of parse_course_details was made; its code, name, period and url are
\* PSYC10001, 'Intro to Psych', 'Semester 1' and c1.htm in the directory of
\* the subject URL, for each of these fields that the detail page of c1.htm
\* does not itself supply.
C18_ScenarioOneCourse ==
    ScenarioParsed =>
        /\ Len(all_courses) = 1
        /\ Len(calls) = 2
        /\ calls[1].fn = "parse_course_details"
        /\ calls[1].url = Url(SubjectUrl.ed, F("cx", "c1"))
        /\ \A k \in DOMAIN ScenarioFields :
              k \notin DOMAIN calls[1].ret => all_courses[1][k] = ScenarioFields[k]

C18_Witness ==
    /\ ScenarioParsed
    /\ Len(all_courses) = 1
    /\ \A k \in DOMAIN ScenarioFields : all_courses[1][k] = ScenarioFields[k]
    /\ K2("prohibited", "combinations") \in DOMAIN all_courses[1]

\* the page at url is served with nothing in it and a fetch of it succeeds
FetchedEmpty(url) ==
    /\ Up(url) /\ ~DebugWriteFails(url)
    /\ url \in DOMAIN site /\ site[url] = EmptyDoc

\* the files scrape_all writes whatever the index holds
CollegeAndSummaryFiles ==
    {CollegeFile(c) : c \in CollegeSet} \cup {AllCollegesFile, AllSchoolsFile}

\* C20: a parse function whose page was fetched and holds nothing returns an
\* empty list or map, with no exception raised or handled; an index page
\* that holds nothing gives three empty school lists with no fallback to the
\* previous edition, and the crawl then goes on without raising (its output
\* files being writable) and, when it has returned, has written the three
\* college files, each with no school, and both summary files.
C20_EmptyIsSuccess ==
    /\ \A i \in DOMAIN calls :
          FetchedEmpty(calls[i].url) =>
              /\ calls[i].seen = "none" /\ calls[i].exc = "none"
              /\ DOMAIN calls[i].ret = {}
    /\ (pc # "index" /\ FetchedEmpty(SCHOOLS_INDEX_URL_CURRENT)) =>
          /\ colleges_data = EmptyColleges
          /\ requests = <<SCHOOLS_INDEX_URL_CURRENT>>
          /\ calls = <<>> /\ all_schools = <<>>
          /\ raised \in {"none", "IOError"}
          /\ unwritable \cap CollegeAndSummaryFiles = {} =>
                /\ raised = "none"
                /\ pc \in {"college", "summary", "done"}
          /\ pc = "done" =>
                /\ \A c \in CollegeSet :
                      /\ CollegeFile(c) \in DOMAIN files
                      /\ files[CollegeFile(c)] = [name |-> c, schools |-> <<>>]
                /\ {AllCollegesFile, AllSchoolsFile} \subseteq DOMAIN files
                /\ files[AllSchoolsFile] = <<>>
                /\ Len(files[AllCollegesFile]) = Len(college_names)

C20_Witness ==
    /\ pc = "done" /\ raised = "none"
    /\ FetchedEmpty(SCHOOLS_INDEX_URL_CURRENT)
    /\ CollegeAndSummaryFiles \subseteq DOMAIN files
    /\ all_schools = <<>>

\* C21 (as stated): main() does not return normally after a crawl that
\* raised: whenever main has returned, scrape_all had returned its counts.
C21_MainPropagatesFailure ==
    pc = "main_returned" => raised = "none"

\* the elements of a course list that are delivered, in order
Delivered(items) == SelectSeq(items, LAMBDA c : PeriodOf(c) # NotDelivered)

\* C22: after a call of filter_unavailable_courses that succeeded, the file
\* holds the courses of the original list whose period is not 'Not delivered
\* this year', in their order; the returned count is the number removed; when
\* it is 0 neither the file nor its backup was written; and a second run
\* after a successful one succeeds and removes nothing.
C22_FilterKeepsDelivered ==
    /\ \A i \in DOMAIN calls :
          (calls[i].fn = "filter_unavailable_courses" /\ calls[i].success) =>
              /\ calls[i].after[calls[i].path].kind = "list"
              /\ calls[i].after[calls[i].path].items
                    = Delivered(calls[i].before[calls[i].path].items)
              /\ calls[i].removed = Len(calls[i].before[calls[i].path].items)
                                    - Len(Delivered(calls[i].before[calls[i].path].items))
              /\ calls[i].removed = 0 => calls[i].after = calls[i].before
    /\ (pc = "filtered_twice" /\ calls[1].success) =>
          /\ calls[2].success
          /\ calls[2].removed = 0
          /\ calls[2].after = calls[1].after

C22_Witness ==
    /\ pc = "filtered_twice"
    /\ calls[1].success /\ calls[1].removed = 2
    /\ Len(calls[1].before[CourseFilePath].items) = MaxCourses
    /\ Len(files[CourseFilePath].items) = 1
    /\ calls[1].before[CourseFilePath].fmt = "compact"
    /\ files[CourseFilePath].fmt = "indent2"
    /\ BackupPath(CourseFilePath) \in DOMAIN files
    /\ calls[2].success /\ calls[2].removed = 0

\* the links that pass the tests of lines 333-337 (and 372-376)
UsableLinks(links) ==
    SelectSeq(links, LAMBDA l : /\ l.has /\ l.href.form # "none" /\ l.text # <<>>
                                /\ ~IsNavHref(l.href))

\* the links a school page contributes subjects from: those of its list
\* items, or those of its main-content region when the list items gave none
SubjectSource(doc) ==
    IF UsableLinks(doc.items) # <<>> THEN UsableLinks(doc.items)
    ELSE IF doc.hasContent THEN UsableLinks(doc.content)
    ELSE <<>>

SubjectsReturned ==
    /\ pc = "returned" /\ Len(calls) = 1 /\ requests # <<>>
    /\ calls[1].fn = "parse_school_subjects" /\ calls[1].seen = "none"

\* C23: the list returned by parse_school_subjects for a fetched school page
\* has no two subjects of one name; its names are those of the usable links
\* of the list items, or of the main-content region only when the list items
\* gave none; each subject is the first link of its name, and the subjects
\* are in document order.
C23_SubjectsUniqueFirstWins ==
    SubjectsReturned =>
        /\ \A i, j \in DOMAIN subjects : i # j => subjects[i].name # subjects[j].name
        /\ {subjects[i].name : i \in DOMAIN subjects}
              = {l.text : l \in Range(SubjectSource(DocAt(FetchedUrl)))}
        /\ \A i \in DOMAIN subjects :
              \E k \in DOMAIN SubjectSource(DocAt(FetchedUrl)) :
                  /\ SubjectSource(DocAt(FetchedUrl))[k].text = subjects[i].name
                  /\ SiblingUrl(SubjectSource(DocAt(FetchedUrl))[k].href, SchoolPageUrl)
                        = subjects[i].url
                  /\ \A m \in 1..(k - 1) :
                        SubjectSource(DocAt(FetchedUrl))[m].text # subjects[i].name
                  /\ \A j \in DOMAIN subjects : j < i =>
                        \E m \in 1..(k - 1) :
                            SubjectSource(DocAt(FetchedUrl))[m].text = subjects[j].name

C23_Witness ==
    /\ SubjectsReturned
    /\ Up(SchoolPageUrl)
    /\ DocAt(SchoolPageUrl).items
          = << Link(Rel(F("cx_sb_", "s2")), <<"Divinity">>),
               Link(Rel(F("cx_sb_", "s1")), <<"Divinity">>) >>
    /\ DocAt(SchoolPageUrl).hasContent
    /\ DocAt(SchoolPageUrl).content # <<>>
    /\ Len(subjects) = 1
    /\ subjects[1].url = Url(BASE_URL_CURRENT_0, F("cx_sb_", "s2"))

UrlsOf(entries) == [i \in DOMAIN entries |-> entries[i].url]

\* C24: at every point of scrape_all, parse_school_subjects has been called
\* once for each school visited so far, in order; while a school's subjects
\* are being processed its school file is already written, parse_courses has
\* been called once for each subject before the current one, in order, and
\* the school's course file is not yet written; the course file is written
\* once parse_courses has been called for every subject; and a summary file
\* exists only when every school of every college has been visited and has
\* its school file and its course file.
C24_StrictlySequential ==
    /\ UrlsOf(CallsOf("parse_school_subjects")) = UrlsOf(all_schools)
    /\ pc \in {"subject", "courses"} =>
          /\ SchoolFile(CurrentSchool) \in DOMAIN files
          /\ files[SchoolFile(CurrentSchool)] = [school |-> CurrentSchool, subjects |-> subjects]
          /\ CoursesFile(CurrentSchool) \notin DOMAIN files
          /\ UrlsOf(CoursesCallsOfSchool) = UrlsOf(SubSeq(subjects, 1, ji - 1))
          /\ pc = "courses" => ji = Len(subjects) + 1
    /\ \A n \in DOMAIN all_schools :
          CoursesFile(all_schools[n]) \in DOMAIN files =>
              (n < Len(all_schools) \/ pc \in {"school", "college", "summary", "done", "raised"})
    /\ (AllCollegesFile \in DOMAIN files \/ AllSchoolsFile \in DOMAIN files) =>
          /\ pc \in {"summary", "done", "raised"}
          /\ all_schools = SchoolsFrom(1)
          /\ \A n \in DOMAIN all_schools :
                /\ SchoolFile(all_schools[n]) \in DOMAIN files
                /\ CoursesFile(all_schools[n]) \in DOMAIN files
    /\ pc = "done" =>
          /\ all_schools = SchoolsFrom(1)
          /\ Len(CallsOf("parse_school_subjects")) = Len(SchoolsFrom(1))

C24_Witness ==
    /\ pc = "done"
    /\ Len(CallsOf("parse_school_subjects")) = 2
    /\ Len(CallsOf("parse_courses")) = 4
    /\ {AllCollegesFile, AllSchoolsFile} \subseteq DOMAIN files
    /\ \A n \in DOMAIN all_schools : CoursesFile(all_schools[n]) \in DOMAIN files

\* the names in the name cells of the data rows of a subject page, and the
\* texts of its links outside the tables
TableNames(doc) ==
    {doc.tables[t].rows[n][2].text :
        <<t, n>> \in {<<t, n>> \in (DOMAIN doc.tables) \X (1..(MaxRows + 1)) :
                        /\ n \in DOMAIN doc.tables[t].rows
                        /\ doc.tables[t].rows[n][1].tag = "td"}}

LinkTexts(doc) == {doc.links[i].text : i \in DOMAIN doc.links}

FromTable(doc) == {i \in DOMAIN all_courses : all_courses[i][K1("name")] \in TableNames(doc)}
FromLinks(doc) == {i \in DOMAIN all_courses : all_courses[i][K1("name")] \in LinkTexts(doc)}

\* one parse_courses call returned from the subject page as served
CoursesReturnedFromPage ==
    /\ pc = "returned" /\ calls # <<>>
    /\ calls[Len(calls)].fn = "parse_courses" /\ calls[Len(calls)].seen = "none"
    /\ Up(SubjectUrl) /\ ~site[SubjectUrl].bad

\* C25: a parse_courses result never holds both table-derived and link-derived
\* records (the link scan runs only when the table scan found no course), and
\* a link-derived record has empty availability, period and credits except
\* where its detail map, merged afterwards, supplies the field.
C25_LinkScanOnlyWhenNoTableCourse ==
    CoursesReturnedFromPage =>
        /\ FromTable(site[SubjectUrl]) = {} \/ FromLinks(site[SubjectUrl]) = {}
        /\ \A i \in FromLinks(site[SubjectUrl]) :
           \A k \in {K1("availability"), K1("period"), KCredits} :
              \/ all_courses[i][k] = <<>>
              \/ /\ calls[i].fn = "parse_course_details" /\ calls[i].exc = "none"
                 /\ k \in DOMAIN calls[i].ret
                 /\ all_courses[i][k] = calls[i].ret[k]

\* the page has a table with a data row and a link; the row was rejected and
\* the link scan produced the only record, its period supplied by the details
C25_Witness ==
    /\ CoursesReturnedFromPage
    /\ site[SubjectUrl].tables # <<>> /\ site[SubjectUrl].links # <<>>
    /\ Len(all_courses) = 1 /\ FromLinks(site[SubjectUrl]) = {1}
    /\ all_courses[1][K1("availability")] = <<>>
    /\ all_courses[1][K1("period")] = <<"Semester 2">>

\* C26 (as stated): a scraper created with try_previous_year = False never
\* requests a previous-edition URL, also when the current index page fails.
C26_NoPreviousEditionRequest ==
    ~try_previous_year => \A i \in DOMAIN requests : requests[i].ed # BASE_URL_PREVIOUS

\* the cells of the data rows of a subject page
DataRows(doc) ==
    {doc.tables[t].rows[n] :
        <<t, n>> \in {<<t, n>> \in (DOMAIN doc.tables) \X (1..(MaxRows + 1)) :
                        /\ n \in DOMAIN doc.tables[t].rows
                        /\ doc.tables[t].rows[n][1].tag = "td"}}

\* the codes and periods a course listing shows: in its rows, or for a link
\* the code found in its text and no period
ListingCodes(doc) ==
    {row[1].text : row \in DataRows(doc)} \cup {CodeSearch(l.text) : l \in Range(doc.links)}

ListingPeriods(doc) == {row[3].text : row \in DataRows(doc)} \cup {<<>>}

\* C27 (as stated): after the detail merge the code and the period of every
\* returned course record are still the values taken from the course listing,
\* whatever the detail page holds.
C27_MergeKeepsBasicFields ==
    CoursesReturnedFromPage =>
        \A i \in DOMAIN all_courses :
            /\ all_courses[i][K1("code")] \in ListingCodes(site[SubjectUrl])
            /\ all_courses[i][K1("period")] \in ListingPeriods(site[SubjectUrl])

\* C28 (as stated): every fetch_page call issues at most two requests, and a
\* second request goes to a URL different from the first, also in calls made
\* after the base was switched to the previous edition.
C28_RetryIsDifferentUrl ==
    \A i \in DOMAIN calls :
        calls[i].fn = "fetch_page" =>
            /\ Len(calls[i].reqs) <= 2
            /\ Len(calls[i].reqs) = 2 => calls[i].reqs[2] # calls[i].reqs[1]

\* the five column indices resolved for one header list, in the order code,
\* availability, name, period, credits
ColumnIndices(headers) ==
    <<code_idx(headers), availability_idx(headers), name_idx(headers),
      period_idx(headers), credits_idx(headers)>>

\* C29 (as stated): for every course table of a parsed subject page the five
\* resolved column indices are pairwise distinct.
C29_ColumnIndicesDistinct ==
    CoursesReturnedFromPage =>
        \A t \in Range(CourseTables(site[SubjectUrl])) :
            \A a, b \in 1..5 :
                a # b => ColumnIndices(Headers(t))[a] # ColumnIndices(Headers(t))[b]

\* the position of scrape_all in its code: the stage, the college, the school,
\* the step within the school, the subject
Stage(p) ==
    CASE p = "index" -> 0
      [] p \in {"college", "school", "subject", "courses"} -> 1
      [] p = "summary" -> 2
      [] OTHER -> 3

Phase(p) ==
    CASE p = "school" -> 1
      [] p = "subject" -> 2
      [] p = "courses" -> 3
      [] OTHER -> 0

Position(p, c, s, j) == <<Stage(p), c, s, Phase(p), IF p = "subject" THEN j ELSE 0>>

\* lexicographic order on positions
Before(a, b) ==
    \E n \in DOMAIN a : a[n] < b[n] /\ \A m \in 1..(n - 1) : a[m] = b[m]

RECURSIVE TotalReturned(_)
TotalReturned(entries) ==
    IF entries = <<>> THEN 0 ELSE Len(Head(entries).ret) + TotalReturned(Tail(entries))

\* the fetch_page calls scrape_all itself made for the index (lines 770, 775)
IndexFetches ==
    IF pc = "index" THEN 0
    ELSE IF ParsedIndex(fetch_page(SCHOOLS_INDEX_URL_CURRENT, BASE_URL_CURRENT_0)).exc = "none"
    THEN 1 ELSE 2

\* every parse function calls fetch_page once per call
FetchPageCalls == IndexFetches + Len(calls)

SchoolsFound  == Len(all_schools)
SubjectsFound == TotalReturned(CallsOf("parse_school_subjects"))
CoursesFound  == TotalReturned(CallsOf("parse_courses"))

\* at every step of a run the calls made so far are one per school record,
\* at most one per subject found and at most one per course found
FetchBound ==
    /\ pc \in {"index", "college", "school", "subject", "courses", "summary", "done", "raised"}
    /\ pc = "school" => ci \in DOMAIN college_names /\ si \in DOMAIN colleges_data[CurrentCollege]
    /\ pc = "subject" => ji \in DOMAIN subjects
    /\ Len(CallsOf("parse_school_subjects")) = SchoolsFound
    /\ Len(CallsOf("parse_courses")) <= SubjectsFound
    /\ Len(CallsOf("parse_course_details")) <= CoursesFound
    /\ FetchPageCalls <= 2 + SchoolsFound + SubjectsFound + CoursesFound
    /\ Len(requests) <= 2 * FetchPageCalls

=============================================================================
